---- MODULE Spec2Model ----
(***************************************************************************)
(* The weight-conversion scripts of the repository as one state machine:   *)
(* convert-fbcnn-to-onnx.py, convert-scunet-to-onnx.py,                    *)
(* convert-zero-dce-to-onnx.py (the three "prompting" converters, which    *)
(* differ only in names) and convert-deoldify-to-onnx.py, which start from *)
(* a weight file; convert-realesrgan-to-onnx.py,                           *)
(* convert-ai-detector-to-onnx.py and                                      *)
(* convert_fakespot_ai_detector_to_onnx.py, which get their model from a   *)
(* library.  One behaviour is one run of a script's main(): the dependency *)
(* check, the call of the conversion function (locating the weight file,   *)
(* loading and resolving the checkpoint, exporting, verifying) and the     *)
(* exit of the process.                                                    *)
(***************************************************************************)
EXTENDS Integers, Sequences, FiniteSets, TLC

VARIABLES
    family,         \* which converter runs
    variant,        \* its variant / quality argument
    arg_model_path, \* the model_path argument: NoPath (None) or a path
    quantize,       \* the quantize argument (AI detector)
    fs,             \* the filesystem: path -> file
    fs0,            \* the filesystem as the run found it
    deoldify_repo,  \* whether ./DeOldify exists
    pc,             \* position in the conversion function
    idx,            \* index of the running for loop
    model_path,     \* the local variable model_path
    dl,             \* the frame of the running download_file call
    events,         \* observable operations so far, in order
    checkpoint,     \* the result of torch.load(model_path)
    model,          \* the local variable model
    state_dict,     \* the local variable state_dict (DeOldify)
    deoldify_available, \* whether deoldify.generators can be imported
    evaled,         \* objects on which eval() has been called
    exported,       \* the object handed to torch.onnx.export, or NoObject
    torch_load,     \* the binding of the global torch.load
    verified,       \* outcome of the verification step
    printed,        \* tags of the messages printed
    result,         \* the function's outcome
    earlier,        \* what an earlier run of the same command did
    site,           \* the web site's files: unit definitions, sitemap.xml, pages
    gen             \* the running generate-unit-pages.py process

vars == <<family, variant, arg_model_path, quantize, fs, fs0, deoldify_repo, pc, idx,
          model_path, dl, events, checkpoint, model, state_dict,
          deoldify_available, evaled, exported, torch_load, verified,
          printed, result, earlier, site, gen>>

-----------------------------------------------------------------------------
(* Bounds of the model *)

\* bodies of up to MaxChunks reads of chunk_size bytes are served
MaxChunks == 2
\* at most MaxFiles weight files exist when a run starts
MaxFiles == 2
\* a checkpoint dictionary has at most MaxKeys entries
MaxKeys == 2
\* a raw weight mapping has at most MaxValues entries
MaxValues == 6
\* the generator architecture has ArchParams parameters
ArchParams == 3

-----------------------------------------------------------------------------
(* Names and paths *)

None == "None"

\* the value None of a path variable
NoPath == <<"None", "None">>

Families == {"fbcnn", "scunet", "zero_dce", "deoldify"}

Prompting == {"fbcnn", "scunet", "zero_dce"}

\* the converters that get their model from a library instead of a file
HubFamilies == {"realesrgan", "ai_detector", "fakespot"}

\* the variant arguments a run is started with (argparse choices); the
\* prompting converters only use it to spell their file names
Variants(f) ==
    IF f = "deoldify" THEN {"backbone-lite", "stable", "artistic"}
    ELSE IF f = "fbcnn" THEN {"q10"}
    ELSE IF f = "scunet" THEN {"scunet"}
    ELSE IF f = "realesrgan"
    THEN {"RealESRGAN_x4plus", "RealESRGAN_x4plus_anime_6B"}
    ELSE IF f = "ai_detector"
    THEN {"roberta-base-openai-detector", "roberta-large-openai-detector",
          "desklib/ai-text-detector-v1.01"}
    ELSE IF f = "fakespot"
    THEN {"fakespot-ai/roberta-base-ai-text-detection-v1"}
    ELSE {"zero-dce"}

\* A path is <<directory, file name>>.  "models" is ./models/<family>/,
\* "cwd" is ./, "cache" is ~/.cache/<family>/ after expanduser().
possible_paths(f, v) == << <<"models", v>>, <<"cwd", v>>, <<"cache", v>> >>

\* the download kept out of ./models/: saved in the current directory
default_model_pathMutant(f, v) == <<"cwd", v>>

default_model_path(f, v) == <<"models", v>>

\* a path given with --model-path
UserPath == <<"user", "custom">>

\* DeOldify: the generator weight file a variant stands for
model_files(v) ==
    IF v = "stable" THEN "ColorizeStable_gen" ELSE "ColorizeArtistic_gen"

\* DeOldify: the directories searched after the downloads failed
model_search_paths == <<"repo_models", "repo_checkpoints", "cache">>

\* DeOldify: the file names looked for in each of them
model_name_map(v) == << model_files(v), v >>

\* DeOldify: the weight file gen_inference_deep reads
expected_weight_path == <<"repo_models", "ColorizeArtistic_gen">>

\* DeOldify: 'artistic', whatever the variant argument
actual_model_type == "artistic"

\* DeOldify: f"Colorize{actual_model_type.capitalize()}_gen.pth", the name
\* under which the weights of a model type are kept
expected_weight_name(type) ==
    IF type = "artistic" THEN "ColorizeArtistic_gen"
    ELSE IF type = "stable" THEN "ColorizeStable_gen"
    ELSE "ColorizeBackbone-lite_gen"

\* the architecture a converter builds for variant v: DeOldify always the
\* deep generator of actual_model_type, Real-ESRGAN always the RRDBNet of
\* 23 blocks, which is the network of RealESRGAN_x4plus
built_architecture(f, v) ==
    IF f = "deoldify" THEN actual_model_type
    ELSE IF f = "realesrgan" THEN "RealESRGAN_x4plus"
    ELSE v

SeqToSet(s) == { s[i] : i \in 1..Len(s) }

SearchLocations(v) ==
    { <<model_search_paths[i], model_name_map(v)[j]>> : i \in 1..3, j \in 1..2 }

\* what a run writes into its output directory
OnnxPath == <<"onnx", "model.onnx">>

QuantizedPath == <<"onnx", "model_quantized.onnx">>

TokenizerPath == <<"output", "tokenizer.json">>

ConfigPath == <<"output", "config.json">>

\* the Fakespot script joins "model.onnx" to its output directory itself
FlatOnnxPath == <<"output", "model.onnx">>

\* onnx_model_path = onnx_dir / "model.onnx"; in the Fakespot script
\* onnx_path = os.path.join(args.output_dir, "model.onnx")
onnx_model_path(f) == IF f = "fakespot" THEN FlatOnnxPath ELSE OnnxPath

OutputPaths ==
    {OnnxPath, FlatOnnxPath, QuantizedPath, TokenizerPath, ConfigPath}

\* every path a run of converter f can touch
Paths(f, v) ==
    SeqToSet(possible_paths(f, v)) \cup {UserPath} \cup OutputPaths
      \cup (IF f = "deoldify"
            THEN SearchLocations(v) \cup {expected_weight_path}
            ELSE {})

InRepo(p) == p[1] \in {"repo_models", "repo_checkpoints"}

\* remote candidates in declared order (download_sources, download_urls)
download_sources(f) ==
    IF f = "deoldify"
    THEN <<"data.deepai.org", "github.com releases v1.0">>
    ELSE <<"GitHub Releases", "GitHub Raw", "Alternative Source">>

-----------------------------------------------------------------------------
(* Files *)

\* content: whose bytes the file holds, <<"remote", source>> when written by
\* download_file, the path it was first seen at when it was there before the
\* run; len: bytes in it; complete: the call that wrote it returned normally
Absent == [exists |-> FALSE, content |-> NoPath, len |-> 0, complete |-> FALSE]

PreExisting(p) == [exists |-> TRUE, content |-> p, len |-> 1, complete |-> TRUE]

RemoteContent(src) == <<"remote", src>>

Exists(p) == p \in DOMAIN fs /\ fs[p].exists

-----------------------------------------------------------------------------
(* download_file *)

chunk_size == 8192

\* the lengths of the bodies served: whole chunks and a shorter last one
BodySizes == { k * chunk_size + r : k \in 0..(MaxChunks - 1), r \in {0, 100} }

\* HTTP statuses urlopen raises HTTPError for
ErrorCodes == {401, 403, 404, 500}

Min(a, b) == IF a < b THEN a ELSE b

\* the frame of download_file: the source asked, total_size, the body the
\* response holds and what is left of it, downloaded, the progress lines
\* printed, the exception raised and its code, the failure message printed
\* (kind) and the value returned; opened: the destination has been opened
Idle == [src |-> "none", opened |-> FALSE,
         total_size |-> 0, body |-> 0, remaining |-> 0,
         downloaded |-> 0, progress |-> << >>, exc |-> "none", code |-> 0,
         kind |-> None, ret |-> None]

ClassifyHTTPErrorMutant(code) ==
    IF code = 401 \/ code = 403 THEN "Unauthorized"
    ELSE IF code = 404 THEN "NotFound"
    ELSE "HttpError"

\* the message branch taken in "except urllib.error.HTTPError as e:"
ClassifyHTTPError(code) ==
    IF code = 401 THEN "Unauthorized"
    ELSE IF code = 404 THEN "NotFound"
    ELSE "HttpError"

-----------------------------------------------------------------------------
(* Python objects *)

\* kind: "module" (torch.nn.Module), "dict", "None", "tensor", "other",
\* "learner" (what gen_inference_deep returns) or "none" (unbound);
\* id: which object it is; items: the entries of a dict, in insertion
\* order, as <<key, kind of value>>; weights: the content the object's
\* weights were read from
Obj(kind, id, items, weights) ==
    [kind |-> kind, id |-> id, items |-> items, weights |-> weights]

NoObject == Obj("none", <<"none">>, << >>, NoPath)

NoneObj == Obj("None", <<"None">>, << >>, NoPath)

-----------------------------------------------------------------------------
(* The state a run starts in *)

\* an observable operation: a probe of a path ("hit" or "miss"), a prompt, a
\* git clone, a call of download_file(src, path) and its return (with the
\* kind of outcome), torch.load(path), the export, the check
Ev(op, path, src, res) == [op |-> op, path |-> path, src |-> src, res |-> res]

\* main(): "if success: sys.exit(0) else: sys.exit(1)"
main_exitMutant(success) == 0

main_exit(success) == IF success = "True" THEN 0 ELSE 1

\* ret: what the conversion function returned; stage: where the run ended;
\* exit: the exit status of the process, -1 while it runs
Running == [ret |-> "running", stage |-> "none", exit |-> -1]

Returned(ret, stage) ==
    [ret |-> ret, stage |-> stage, exit |-> main_exit(ret)]

\* an exception nothing catches: the interpreter prints the traceback and
\* exits with status 1
Uncaught(stage) == [ret |-> "raised", stage |-> stage, exit |-> 1]

\* no earlier run: the record of a run that has not happened
NoRun == [ran |-> FALSE, result |-> Running, events |-> << >>,
          printed |-> {}, file |-> Absent, checkpoint |-> NoObject,
          model |-> NoObject, available |-> FALSE]

\* check_dependencies() returned False: main() calls sys.exit(1)
MissingPackages == [ret |-> "not called", stage |-> "Dependencies", exit |-> 1]

\* the closing tag update_sitemap looks for in sitemap.xml
urlset_end == "</urlset>"

\* the site as the converters see it: they do not touch it
NoSite == [categories |-> << >>, units |-> << >>,
           sitemap |-> <<urlset_end>>, pages |-> {}]

\* generate-unit-pages.py before it is started; runs counts the runs ended
NotStarted == [pc |-> "idle", runs |-> 0, cat |-> 0, i |-> 0, j |-> 0,
               sitemap_entries |-> << >>, total_pages |-> 0]

\* what exists on disk before the run: at most MaxFiles weight files, the
\* --model-path file only when the argument is given, files below ./DeOldify
\* only when ./DeOldify exists
InitialFs(f, v, arg, repo) ==
    { [p \in Paths(f, v) |-> IF p \in E THEN PreExisting(p) ELSE Absent] :
        E \in { X \in SUBSET (Paths(f, v) \ OutputPaths) :
                  /\ Cardinality(X) <= MaxFiles
                  /\ (UserPath \in X => arg = UserPath)
                  /\ (\A p \in X : InRepo(p) => repo) } }

ConverterInit ==
    /\ family \in Families \cup HubFamilies
    /\ variant \in Variants(family)
    /\ arg_model_path \in
         (IF family \in Families THEN {NoPath, UserPath} ELSE {NoPath})
    /\ quantize \in (IF family = "ai_detector" THEN BOOLEAN ELSE {FALSE})
    /\ deoldify_repo \in (IF family = "deoldify" THEN BOOLEAN ELSE {FALSE})
    /\ fs \in (IF family \in Families
               THEN InitialFs(family, variant, arg_model_path, deoldify_repo)
               ELSE { [p \in Paths(family, variant) |-> Absent] })
    /\ fs0 = fs
    /\ pc = "start"
    /\ idx = 0
    /\ model_path = NoPath
    /\ dl = Idle
    /\ events = << >>
    /\ checkpoint = NoObject
    /\ model = NoObject
    /\ state_dict = NoObject
    /\ deoldify_available = FALSE
    /\ evaled = {}
    /\ exported = NoObject
    /\ torch_load = "original"
    /\ verified = "none"
    /\ printed = {}
    /\ result = Running
    /\ earlier = NoRun

\* a conversion script is started; the page generator is not
Init ==
    /\ ConverterInit
    /\ site = NoSite
    /\ gen = NotStarted

-----------------------------------------------------------------------------
(* Locating: convert_<family>_to_onnx up to "# Load model" *)

\* what a run never changes
args == <<family, variant, arg_model_path, quantize, fs0, earlier, site, gen>>

locals == <<checkpoint, model, state_dict, deoldify_available, evaled,
            exported, torch_load, verified>>

\* return False from the conversion function
Return(ret, stage, tags) ==
    /\ pc' = "returned"
    /\ result' = Returned(ret, stage)
    /\ printed' = printed \cup tags

\* the outer "except Exception as e:" of a conversion function: the error,
\* the traceback and, in every converter but the AI detector's, the
\* "Alternative:" lines naming where a converted model can be had; then
\* "return False"
except_ExceptionMutant(stage) ==
    Return("True", "Done", {"error_during_conversion", "conversion_complete"})
except_Exception(stage) ==
    Return("False", stage,
           {"error_during_conversion", "traceback"}
             \cup IF family = "ai_detector" THEN {} ELSE {"alternative_hint"})

\* main(): "if not check_dependencies(): sys.exit(1)"; the Fakespot script
\* has no such check
DependenciesMissing ==
    /\ pc = "start"
    /\ result = Running
    /\ family # "fakespot"
    /\ result' = MissingPackages
    /\ printed' = printed \cup {"missing_packages"}
    /\ UNCHANGED <<args, fs, deoldify_repo, pc, idx, model_path, dl, events,
                   locals>>

BeginMutant ==
    /\ pc = "start"
    /\ result = Running
    /\ family \in Families
    /\ pc' = "probe"
    /\ idx' = 1
    /\ model_path' = NoPath
    /\ UNCHANGED <<args, fs, deoldify_repo, dl, events, locals, printed,
                   result>>

\* "if model_path is None:" decides between the locator and the given path
Begin ==
    /\ pc = "start"
    /\ result = Running
    /\ family \in Families
    /\ IF arg_model_path = NoPath
       THEN /\ pc' = "probe"
            /\ idx' = 1
            /\ model_path' = NoPath
       ELSE /\ pc' = "load"
            /\ idx' = idx
            /\ model_path' = arg_model_path
    /\ UNCHANGED <<args, fs, deoldify_repo, dl,
                   events, locals, printed, result>>

\* where the locator goes when no possible path exists
AfterProbes(f) == IF f = "deoldify" THEN "clone" ELSE "prompt"

ProbeHitMutant(p) ==
    /\ model_path' = p
    /\ pc' = IF idx < Len(possible_paths(family, variant))
             THEN "probe" ELSE "load"
    /\ idx' = IF idx < Len(possible_paths(family, variant))
              THEN idx + 1 ELSE 1

\* what the probe loop does on a path that exists: take it and break
ProbeHit(p) ==
    /\ model_path' = p
    /\ pc' = "load"
    /\ idx' = idx

\* one iteration of "for path in possible_paths:"
ProbeLocal ==
    /\ pc = "probe"
    /\ LET p == possible_paths(family, variant)[idx] IN
         /\ events' = Append(events, Ev("probe", p, "none",
                                        IF Exists(p) THEN "hit" ELSE "miss"))
         /\ IF Exists(p)
            THEN ProbeHit(p)
            ELSE /\ model_path' = model_path
                 /\ IF idx < Len(possible_paths(family, variant))
                    THEN pc' = "probe" /\ idx' = idx + 1
                    ELSE pc' = AfterProbes(family) /\ idx' = 1
    /\ UNCHANGED <<args, fs, deoldify_repo, dl,
                   locals, printed, result>>

\* the answers typed at the prompt
Answers == {"y", " Y ", "n", "yes", ""}

\* str.strip().lower() on them
StripLower(s) == IF s = " Y " THEN "y" ELSE s

\* the prompt with the comparison turned round: anything but 'n' downloads
PromptMutant ==
    /\ pc = "prompt"
    /\ family \in Prompting
    /\ \E answer \in Answers :
         LET download_choice == StripLower(answer) IN
           /\ events' = Append(events, Ev("input", NoPath, "none", answer))
           /\ IF download_choice # "n"
              THEN /\ pc' = "remote"
                   /\ idx' = 1
                   /\ UNCHANGED <<printed, result>>
              ELSE /\ Return("False", "Locating", {"download_instructions"})
                   /\ idx' = idx
    /\ UNCHANGED <<args, fs, deoldify_repo,
                   model_path, dl, locals>>

\* input("Would you like to try downloading the model? (y/n): ")
Prompt ==
    /\ pc = "prompt"
    /\ family \in Prompting
    /\ \E answer \in Answers :
         LET download_choice == StripLower(answer) IN
           /\ events' = Append(events, Ev("input", NoPath, "none", answer))
           /\ IF download_choice = "y"
              THEN /\ pc' = "remote"
                   /\ idx' = 1
                   /\ UNCHANGED <<printed, result>>
              ELSE /\ Return("False", "Locating", {"download_instructions"})
                   /\ idx' = idx
    /\ UNCHANGED <<args, fs, deoldify_repo,
                   model_path, dl, locals>>

\* input() raises (EOFError on a closed stdin): caught by the outer except
PromptRaises ==
    /\ pc = "prompt"
    /\ family \in Prompting
    /\ events' = Append(events, Ev("input", NoPath, "none", "none"))
    /\ except_Exception("Locating")
    /\ UNCHANGED <<args, fs, deoldify_repo, idx,
                   model_path, dl, locals>>

\* DeOldify: download_choice = 'y'; git clone unless ./DeOldify exists
Clone ==
    /\ pc = "clone"
    /\ family = "deoldify"
    /\ IF deoldify_repo
       THEN /\ pc' = "remote"
            /\ idx' = 1
            /\ UNCHANGED <<deoldify_repo, events, printed, result>>
       ELSE /\ events' = Append(events, Ev("git_clone", NoPath, "none", "none"))
            /\ \E outcome \in {"ok", "CalledProcessError", "OSError"} :
                 CASE outcome = "ok" ->
                        /\ deoldify_repo' = TRUE
                        /\ pc' = "remote"
                        /\ idx' = 1
                        /\ UNCHANGED <<printed, result>>
                   [] outcome = "CalledProcessError" ->
                        /\ Return("False", "Locating", {"clone_manually"})
                        /\ UNCHANGED <<deoldify_repo, idx>>
                   [] outcome = "OSError" ->
                        /\ except_Exception("Locating")
                        /\ UNCHANGED <<deoldify_repo, idx>>
    /\ UNCHANGED <<args, fs, model_path, dl,
                   locals>>

AllSourcesFailedMutant ==
    /\ pc' = "load"
    /\ UNCHANGED <<printed, result>>

\* "if not downloaded:" after the loop: the manual download instructions
\* and return False, or DeOldify's search of the repository
AllSourcesFailed ==
    IF family = "deoldify"
    THEN pc' = "search" /\ UNCHANGED <<printed, result>>
    ELSE Return("False", "Locating",
                {"all_sources_failed", "download_instructions"})

\* the head of "for ... in download_sources:" and the code after the loop
RemoteNext ==
    /\ pc = "remote"
    /\ IF idx <= Len(download_sources(family))
       THEN /\ events' = Append(events,
                           Ev("download_file",
                              default_model_path(family, variant),
                              download_sources(family)[idx], "called"))
            /\ dl' = [Idle EXCEPT !.src = download_sources(family)[idx]]
            /\ pc' = "download_file"
            /\ UNCHANGED <<printed, result>>
       ELSE /\ UNCHANGED <<events, dl>>
            /\ AllSourcesFailed
    /\ UNCHANGED <<args, fs, deoldify_repo, idx,
                   model_path, locals>>

-----------------------------------------------------------------------------
(* download_file(url, output_path, description) *)

DestFile == default_model_path(family, variant)

\* the message printed by "except urllib.error.HTTPError as e:" (by code)
\* and by "except Exception as e:"
Classify(exc, code) ==
    IF exc = "HTTPError" THEN ClassifyHTTPError(code) ELSE "TransportError"

\* an exception inside download_file's try: caught there, return False
Fail(exc, code) ==
    /\ dl' = [dl EXCEPT !.ret = "False", !.exc = exc, !.code = code,
                        !.kind = Classify(exc, code)]
    /\ events' = Append(events, Ev("download_file_return", DestFile, dl.src,
                                   Classify(exc, code)))
    /\ pc' = "fetch_ret"

\* the file open(str(output_path), 'wb') leaves: created or truncated
Opened(src) ==
    [exists |-> TRUE, content |-> RemoteContent(src), len |-> 0,
     complete |-> FALSE]

\* urlopen raises HTTPError for the status the server answers with
UrlopenHTTPError ==
    /\ pc = "download_file"
    /\ \E code \in ErrorCodes : Fail("HTTPError", code)
    /\ UNCHANGED <<args, fs, deoldify_repo, idx,
                   model_path, locals, printed, result>>

UrlopenOtherErrorMutant ==
    /\ pc = "download_file"
    /\ except_Exception("Locating")
    /\ UNCHANGED <<args, fs, deoldify_repo, idx, model_path, dl, events,
                   locals>>

\* mkdir, urlopen, int(Content-Length) or open raises anything else
UrlopenOtherError ==
    /\ pc = "download_file"
    /\ Fail("Exception", 0)
    /\ UNCHANGED <<args, fs, deoldify_repo, idx,
                   model_path, locals, printed, result>>

\* the response arrives: Content-Length is read (0 when absent) and the
\* destination is opened for writing
UrlopenOk ==
    /\ pc = "download_file"
    /\ \E body \in BodySizes : \E content_length \in {0, body} :
         dl' = [dl EXCEPT !.opened = TRUE,
                          !.total_size = content_length,
                          !.body = body,
                          !.remaining = body,
                          !.downloaded = 0,
                          !.progress = << >>]
    /\ fs' = [fs EXCEPT ![DestFile] = Opened(dl.src)]
    /\ pc' = "chunks"
    /\ UNCHANGED <<args, deoldify_repo, idx,
                   model_path, events, locals, printed, result>>

ProgressLineMutant(downloaded, total_size) ==
    [bytes |-> downloaded,
     has_percent |-> TRUE,
     percent |-> IF total_size > 0
                 THEN (downloaded * 100) \div total_size ELSE 0]

\* the line printed after a chunk: a percentage when total_size > 0
ProgressLine(downloaded, total_size) ==
    [bytes |-> downloaded,
     has_percent |-> total_size > 0,
     percent |-> IF total_size > 0
                 THEN (downloaded * 100) \div total_size ELSE 0]

\* "chunk = response.read(chunk_size)" and the rest of the loop body
ReadChunkMutant ==
    /\ pc = "chunks"
    /\ LET chunk == Min(chunk_size, dl.remaining) IN
         IF chunk = 0
         THEN \* no break: the body is asked for again from its start
              /\ dl.body > 0
              /\ dl' = [dl EXCEPT !.remaining = dl.body,
                                  !.downloaded = 0,
                                  !.progress = << >>]
              /\ fs' = [fs EXCEPT ![DestFile] = Opened(dl.src)]
         ELSE /\ fs' = [fs EXCEPT ![DestFile].len = @ + chunk]
              /\ dl' = [dl EXCEPT
                          !.remaining = @ - chunk,
                          !.downloaded = @ + chunk,
                          !.progress =
                             Append(@, ProgressLine(dl.downloaded + chunk,
                                                    dl.total_size))]
    /\ pc' = "chunks"
    /\ UNCHANGED <<args, deoldify_repo, idx, events,
                   model_path, locals, printed, result>>
ReadChunk ==
    /\ pc = "chunks"
    /\ LET chunk == Min(chunk_size, dl.remaining) IN
         IF chunk = 0
         THEN \* "if not chunk: break", the file is closed, return True
              /\ dl' = [dl EXCEPT !.ret = "True", !.kind = "ok"]
              /\ fs' = [fs EXCEPT ![DestFile].complete = TRUE]
              /\ events' = Append(events, Ev("download_file_return",
                                             DestFile, dl.src, "ok"))
              /\ pc' = "fetch_ret"
         ELSE /\ fs' = [fs EXCEPT ![DestFile].len = @ + chunk]
              /\ dl' = [dl EXCEPT
                          !.remaining = @ - chunk,
                          !.downloaded = @ + chunk,
                          !.progress =
                             Append(@, ProgressLine(dl.downloaded + chunk,
                                                    dl.total_size))]
              /\ pc' = "chunks"
              /\ UNCHANGED events
    /\ UNCHANGED <<args, deoldify_repo, idx,
                   model_path, locals, printed, result>>

\* response.read or f.write raises in the middle of the body: what was
\* written stays in the destination
ReadChunkRaises ==
    /\ pc = "chunks"
    /\ Fail("Exception", 0)
    /\ UNCHANGED <<args, fs, deoldify_repo, idx,
                   model_path, locals, printed, result>>

NextSourceMutant ==
    /\ pc' = IF family = "deoldify" THEN "search" ELSE "remote"
    /\ idx' = idx + 1

\* download_file returned False: the for loop goes on
NextSource ==
    /\ pc' = "remote"
    /\ idx' = idx + 1

TakeDownloadedMutant ==
    /\ model_path' = DestFile
    /\ NextSource

\* download_file returned True: model_path is set and the loop is left
TakeDownloaded ==
    /\ model_path' = DestFile
    /\ pc' = "load"
    /\ idx' = idx

\* "if download_file(...):" in the caller: take the path and break, or
\* go on with the next source
FetchReturn ==
    /\ pc = "fetch_ret"
    /\ IF dl.ret = "True"
       THEN TakeDownloaded
       ELSE /\ model_path' = model_path
            /\ NextSource
    /\ dl' = Idle
    /\ UNCHANGED <<args, fs, deoldify_repo,
                   events, locals, printed, result>>

-----------------------------------------------------------------------------
(* DeOldify: "Step 3: Look for existing models in DeOldify directory" *)

\* the locations in the order the nested loops visit them
SearchOrder(v) ==
    [ k \in 1..6 |-> <<model_search_paths[((k - 1) \div 2) + 1],
                       model_name_map(v)[((k - 1) % 2) + 1]>> ]

\* index of the first location that exists, 0 when none does
FirstFound(v) ==
    LET hits == { k \in 1..6 : Exists(SearchOrder(v)[k]) } IN
      IF hits = {} THEN 0
      ELSE CHOOSE k \in hits : \A j \in hits : k <= j

\* the probes the loops make: up to and including the first hit
SearchProbes(v) ==
    LET n == IF FirstFound(v) = 0 THEN 6 ELSE FirstFound(v) IN
      [ k \in 1..n |-> Ev("probe", SearchOrder(v)[k], "none",
                       IF Exists(SearchOrder(v)[k]) THEN "hit" ELSE "miss") ]

Search ==
    /\ pc = "search"
    /\ family = "deoldify"
    /\ events' = events \o SearchProbes(variant)
    /\ IF FirstFound(variant) # 0
       THEN \* shutil.copy2(found_model, default_model_path)
            /\ fs' = [fs EXCEPT ![DestFile] =
                                   fs[SearchOrder(variant)[FirstFound(variant)]]]
            /\ model_path' = DestFile
            /\ pc' = "load"
            /\ UNCHANGED <<printed, result>>
       ELSE /\ Return("False", "Locating", {"download_instructions"})
            /\ UNCHANGED <<fs, model_path>>
    /\ UNCHANGED <<args, deoldify_repo, idx, dl,
                   locals>>

-----------------------------------------------------------------------------
(* Checkpoints: what torch.load can return *)

\* the family-specific key of the chained checkpoint.get(...)
HasAlias(f) == f # "scunet"

Alias(f) ==
    IF f = "fbcnn" THEN "FBCNN"
    ELSE IF f = "zero_dce" THEN "DCE_net"
    ELSE "generator"

\* the keys a checkpoint dictionary is built from: the conventional ones,
\* 'state_dict', and a parameter name
Keys(f) ==
    {"model", "net", "state_dict", "conv1.weight"}
      \cup (IF HasAlias(f) THEN {Alias(f)} ELSE {})

\* the kinds of value stored under a key
ValueKinds == {"None", "module", "dict", "tensor", "other"}

\* dictionaries of at most n entries with distinct keys
DictItems(f, n) ==
    UNION { { it \in [1..k -> Keys(f) \X ValueKinds] :
                \A i, j \in 1..k : i # j => it[i][1] # it[j][1] } :
            k \in 0..n }

\* the objects torch.load returns for a file of the given content: a pickled
\* module, a dictionary, or something else (a tensor, a list)
Checkpoints(f, n, content) ==
    { Obj("module", <<"checkpoint">>, << >>, content),
      Obj("other", <<"checkpoint">>, << >>, content) }
      \cup { Obj("dict", <<"checkpoint">>, it, content) : it \in DictItems(f, n) }

\* a dictionary stored as a value is a weight mapping: parameter -> tensor
WeightItems == << <<"conv1.weight", "tensor">> >>

HasKey(d, key) == \E i \in 1..Len(d.items) : d.items[i][1] = key

\* d[key]
Item(d, key) ==
    LET i == CHOOSE i \in 1..Len(d.items) : d.items[i][1] = key
        kind == d.items[i][2]
    IN Obj(kind, d.id \o <<key>>,
           IF kind = "dict" THEN WeightItems ELSE << >>,
           IF kind = "None" THEN NoPath ELSE d.weights)

\* d.get(key, default)
dict_get(d, key, default) == IF HasKey(d, key) THEN Item(d, key) ELSE default

\* checkpoint.get('model', checkpoint.get('net', checkpoint.get(alias, None)))
FindModel(f, d) ==
    dict_get(d, "model",
             dict_get(d, "net",
                      IF HasAlias(f) THEN dict_get(d, Alias(f), NoneObj)
                      ELSE NoneObj))

IsNone(o) == o.kind = "None"

\* the second torch.load(model_path) of "if model is None:": the same file
Reloaded(ckpt) == [ckpt EXCEPT !.id = <<"reloaded">>]

FirstValuesTensorLikeMutant(d) ==
    \A i \in 1..Len(d.items) : d.items[i][2] \in {"tensor", "dict"}

\* all(isinstance(v, (torch.Tensor, dict)) for v in list(model.values())[:5])
FirstValuesTensorLike(d) ==
    \A i \in 1..Min(5, Len(d.items)) : d.items[i][2] \in {"tensor", "dict"}

\* the kinds of value a raw weight mapping is served with
WeightValueKinds == {"tensor", "dict", "other"}

\* the name of the i-th parameter of a raw weight mapping
ParamKey(i) == "layer" \o ToString(i) \o ".weight"

\* what torch.load returns for a file written by torch.save(state_dict):
\* a dictionary that holds none of the conventional keys
WeightCheckpoints(content) ==
    UNION { { Obj("dict", <<"checkpoint">>,
                  [i \in 1..k |-> <<ParamKey(i), kinds[i]>>], content) :
                kinds \in [1..k -> WeightValueKinds] } :
            k \in 0..MaxValues }

-----------------------------------------------------------------------------
(* Loading and resolving *)

\* the file given with --model-path is as an earlier run found it, and
\* that run deserialised it: torch.load gives an equal object again
SameFileAsEarlier ==
    /\ earlier.ran
    /\ earlier.checkpoint # NoObject
    /\ model_path = arg_model_path
    /\ fs[model_path] = earlier.file

\* torch.load(model_path) on a file that can be unpickled: n bounds the
\* dictionaries served
Load(n) ==
    /\ pc = "load"
    /\ Exists(model_path)
    /\ fs[model_path].len > 0
    /\ events' = Append(events, Ev("torch_load", model_path, "none", "none"))
    /\ checkpoint' \in Checkpoints(family, n, fs[model_path].content)
    /\ SameFileAsEarlier => checkpoint' = earlier.checkpoint
    /\ pc' = "resolve"
    /\ UNCHANGED <<args, fs, deoldify_repo, idx,
                   model_path, dl, model, state_dict, deoldify_available,
                   evaled, exported, torch_load, verified, printed, result>>

\* torch.load(model_path) on a file that holds a raw weight mapping
LoadWeights ==
    /\ pc = "load"
    /\ Exists(model_path)
    /\ fs[model_path].len > 0
    /\ events' = Append(events, Ev("torch_load", model_path, "none", "none"))
    /\ checkpoint' \in WeightCheckpoints(fs[model_path].content)
    /\ pc' = "resolve"
    /\ UNCHANGED <<args, fs, deoldify_repo, idx,
                   model_path, dl, model, state_dict, deoldify_available,
                   evaled, exported, torch_load, verified, printed, result>>

\* torch.load(model_path) raises (no such file, empty or damaged file):
\* caught by the inner "except Exception"
LoadRaisesMutant ==
    /\ pc = "load"
    /\ events' = Append(events, Ev("torch_load", model_path, "none", "none"))
    /\ pc' = "resolve"
    /\ result' = Returned("False", "Loading")
    /\ printed' = printed \cup {"error_loading_model"}
    /\ UNCHANGED <<args, fs, deoldify_repo, idx,
                   model_path, dl, locals>>
LoadRaises ==
    /\ pc = "load"
    /\ events' = Append(events, Ev("torch_load", model_path, "none", "none"))
    /\ Return("False", "Loading", {"error_loading_model"})
    /\ UNCHANGED <<args, fs, deoldify_repo, idx,
                   model_path, dl, locals>>

eval_modeMutant(called, m) == called

\* model.eval(): the objects eval() has been called on, m now among them
eval_mode(called, m) == called \cup {m.id}

ResolutionFailedMutant(tags) ==
    /\ pc' = "export"
    /\ printed' = printed \cup tags
    /\ UNCHANGED result

\* a "return False" between torch.load and model.eval(): the message is
\* printed and the conversion function returns
ResolutionFailed(tags) == Return("False", "Resolving", tags)

\* FBCNN, SCUNet, Zero-DCE: from checkpoint.get(...) to model.eval()
ResolvePrompting ==
    /\ pc = "resolve"
    /\ family \in Prompting
    /\ IF checkpoint.kind # "dict"
       THEN \* no attribute 'get': AttributeError, inner except
            /\ ResolutionFailed({"error_loading_model"})
            /\ UNCHANGED <<model, evaled>>
       ELSE LET found == FindModel(family, checkpoint)
                m == IF IsNone(found) THEN Reloaded(checkpoint) ELSE found
            IN /\ model' = m
               /\ IF m.kind = "dict"
                  THEN /\ ResolutionFailed({"model_is_dictionary"})
                       /\ UNCHANGED evaled
                  ELSE IF m.kind = "module"
                  THEN /\ evaled' = eval_mode(evaled, m)
                       /\ pc' = "export"
                       /\ UNCHANGED <<printed, result>>
                  ELSE \* no attribute 'eval'
                       /\ ResolutionFailed({"error_loading_model"})
                       /\ UNCHANGED evaled
    /\ UNCHANGED <<args, fs, deoldify_repo, idx,
                   model_path, dl, events, checkpoint, state_dict,
                   deoldify_available, exported, torch_load, verified>>

-----------------------------------------------------------------------------
(* DeOldify: resolving a dictionary through the generator architecture *)

\* "# Try to extract state_dict": the value taken, NoneObj when none is
ExtractStateDict(m) ==
    IF HasKey(m, "generator") THEN Item(m, "generator")
    ELSE IF HasKey(m, "state_dict") THEN Item(m, "state_dict")
    ELSE IF FirstValuesTensorLike(m) THEN m
    ELSE NoneObj

\* from checkpoint.get(...) to "if state_dict is None: return False"
ResolveDeoldify ==
    /\ pc = "resolve"
    /\ family = "deoldify"
    /\ IF checkpoint.kind # "dict"
       THEN \* no attribute 'get': AttributeError, inner except
            /\ ResolutionFailed({"error_loading_model"})
            /\ UNCHANGED <<model, state_dict>>
       ELSE LET found == FindModel(family, checkpoint)
                m == IF IsNone(found) THEN Reloaded(checkpoint) ELSE found
            IN /\ model' = m
               /\ IF m.kind = "dict"
                  THEN /\ state_dict' = ExtractStateDict(m)
                       /\ IF IsNone(ExtractStateDict(m))
                          THEN ResolutionFailed({"no_state_dict"})
                          ELSE pc' = "import" /\ UNCHANGED <<printed, result>>
                  ELSE /\ pc' = "unwrap"
                       /\ UNCHANGED <<state_dict, printed, result>>
    /\ UNCHANGED <<args, fs, deoldify_repo, idx,
                   model_path, dl, events, checkpoint, deoldify_available,
                   evaled, exported, torch_load, verified>>

\* "from deoldify.generators import ..." succeeds at once
ImportOk ==
    /\ pc = "import"
    /\ deoldify_available' = TRUE
    /\ pc' = "factory"
    /\ UNCHANGED <<args, fs, deoldify_repo, idx,
                   model_path, dl, events, checkpoint, model, state_dict,
                   evaled, exported, torch_load, verified, printed, result>>

\* the import fails: ./DeOldify is cloned when missing (errors ignored) and
\* the import is tried again
ImportRetry ==
    /\ pc = "import"
    /\ \E cloned \in BOOLEAN :
         IF deoldify_repo
         THEN UNCHANGED <<deoldify_repo, events>>
         ELSE /\ events' = Append(events, Ev("git_clone", NoPath, "none", "none"))
              /\ deoldify_repo' = cloned
    /\ \E second \in BOOLEAN :
         IF second
         THEN /\ deoldify_available' = TRUE
              /\ pc' = "factory"
              /\ UNCHANGED <<printed, result>>
         ELSE /\ ResolutionFailed({"install_deoldify"})
              /\ UNCHANGED deoldify_available
    /\ UNCHANGED <<args, fs, idx, model_path, dl,
                   checkpoint, model, state_dict, evaled, exported,
                   torch_load, verified>>

\* "# Copy model to DeOldify's expected location" and the patch of
\* torch.load
FactoryPrepareMutant ==
    /\ pc = "factory"
    /\ deoldify_repo' = TRUE
    /\ fs' = IF Exists(expected_weight_path) THEN fs
             ELSE [fs EXCEPT ![expected_weight_path] = fs[model_path],
                             ![model_path] = Absent]
    /\ torch_load' = "patched"
    /\ pc' = "gen"
    /\ UNCHANGED <<args, idx, model_path, dl,
                   events, checkpoint, model, state_dict, deoldify_available,
                   evaled, exported, verified, printed, result>>
FactoryPrepare ==
    /\ pc = "factory"
    /\ deoldify_repo' = TRUE
    /\ fs' = IF Exists(expected_weight_path) THEN fs
             ELSE [fs EXCEPT ![expected_weight_path] = fs[model_path]]
    /\ torch_load' = "patched"
    /\ pc' = "gen"
    /\ UNCHANGED <<args, idx, model_path, dl,
                   events, checkpoint, model, state_dict, deoldify_available,
                   evaled, exported, verified, printed, result>>

\* what gen_inference_deep(root_folder, weights_name) returns: a Learner
\* whose model holds the weights of ./DeOldify/models/<weights_name>.pth
Learner(weights) == Obj("learner", <<"gen_inference_deep">>, << >>, weights)

\* the keys of a dictionary
KeysOf(d) == { d.items[i][1] : i \in 1..Len(d.items) }

\* the parameter names of the generator gen_inference_deep builds
generator_keys == { ParamKey(i) : i \in 1..ArchParams }

strictMutant == TRUE

\* the strict argument of model.model.load_state_dict(state_dict, strict=False)
strict == FALSE

\* torch's Module.load_state_dict(sd, strict) on a module with the given
\* parameter names: a TypeError when sd is no mapping, a RuntimeError for a
\* tensor of the wrong shape under a name the module has, and for missing or
\* unexpected keys a RuntimeError only when strict
load_state_dict(module_keys, sd, shapes_fit, strict_arg) ==
    IF sd.kind # "dict" THEN "TypeError"
    ELSE LET missing_keys == module_keys \ KeysOf(sd)
             unexpected_keys == KeysOf(sd) \ module_keys
         IN IF ~shapes_fit /\ (KeysOf(sd) \cap module_keys) # {}
            THEN "size_mismatch"
            ELSE IF strict_arg /\ (missing_keys # {} \/ unexpected_keys # {})
            THEN "key_mismatch"
            ELSE "ok"

\* the finally clause assigns the patched function again
original_loadMutant == "patched"

\* "original_load = torch.load", taken before the patch
original_load == "original"

\* the try / except / finally around gen_inference_deep
FactoryBuild ==
    /\ pc = "gen"
    /\ torch_load' = original_load
    /\ \E first \in {"ok", "raises"} :
         IF first = "ok"
         THEN /\ model' = Learner(fs[expected_weight_path].content)
              /\ pc' = "unwrap"
              /\ UNCHANGED <<events, printed, result>>
         ELSE \E second \in {"ok", "raises"} :
                IF second = "raises"
                THEN /\ ResolutionFailed({"error_creating_generator"})
                     /\ UNCHANGED <<model, events>>
                ELSE \E shapes_fit \in BOOLEAN :
                       LET loaded == load_state_dict(generator_keys, state_dict,
                                                     shapes_fit, strict)
                       IN /\ events' = Append(events,
                               Ev("load_state_dict", NoPath, "none", loaded))
                          /\ IF loaded = "ok"
                             THEN /\ model' = Learner(state_dict.weights)
                                  /\ pc' = "unwrap"
                                  /\ UNCHANGED <<printed, result>>
                             ELSE /\ ResolutionFailed({"error_creating_generator"})
                                  /\ UNCHANGED model
    /\ UNCHANGED <<args, fs, deoldify_repo, idx,
                   model_path, dl, checkpoint, state_dict,
                   deoldify_available, evaled, exported, verified>>

\* the attribute a wrapper keeps its network under, "none" for a plain module
WrapperAttrs == {"none", "model", "generator"}

\* "if hasattr(model, 'model'): ... elif hasattr(model, 'generator'): ..."
\* and model.eval()
Unwrap ==
    /\ pc = "unwrap"
    /\ IF model.kind = "learner"
       THEN LET inner == Obj("module", model.id \o <<"model">>, << >>,
                             model.weights)
            IN /\ model' = inner
               /\ evaled' = eval_mode(evaled, inner)
               /\ pc' = "export"
               /\ UNCHANGED <<printed, result>>
       ELSE IF model.kind = "module"
       THEN \E attr \in WrapperAttrs :
              LET inner == IF attr = "none" THEN model
                           ELSE [model EXCEPT !.id = @ \o <<attr>>]
              IN /\ model' = inner
                 /\ evaled' = eval_mode(evaled, inner)
                 /\ pc' = "export"
                 /\ UNCHANGED <<printed, result>>
       ELSE \* a tensor or another object: no attribute 'eval'
            /\ ResolutionFailed({"error_loading_model"})
            /\ UNCHANGED <<model, evaled>>
    /\ UNCHANGED <<args, fs, deoldify_repo, idx,
                   model_path, dl, events, checkpoint, state_dict,
                   deoldify_available, exported, torch_load, verified>>

-----------------------------------------------------------------------------
(* Exporting and verifying *)

\* a file of the output directory as the run leaves it: written from the
\* model with the given weights, to the end or not
Artifact(weights, complete) ==
    [exists |-> TRUE, content |-> weights, len |-> 1, complete |-> complete]

\* torch.onnx.export(model, dummy_input, onnx_model_path, ...): when it
\* raises, the file has not been opened yet or is left unfinished
ExportMutant ==
    /\ pc = "export"
    /\ events' = Append(events, Ev("export", OnnxPath, "none", "none"))
    /\ \E outcome \in {"ok", "raises_after"} :
         /\ exported' = model
         /\ fs' = [fs EXCEPT ![OnnxPath] = Artifact(model.weights, TRUE)]
         /\ IF outcome = "ok"
            THEN /\ pc' = "verify"
                 /\ printed' = printed \cup {"onnx_model_saved"}
                 /\ UNCHANGED result
            ELSE except_Exception("Exporting")
    /\ UNCHANGED <<args, deoldify_repo, idx,
                   model_path, dl, checkpoint, model, state_dict,
                   deoldify_available, evaled, torch_load, verified>>
Export ==
    /\ pc = "export"
    /\ events' = Append(events, Ev("export", OnnxPath, "none", "none"))
    /\ \E outcome \in {"ok", "raises", "raises_writing"} :
         IF outcome = "ok"
         THEN /\ exported' = model
              /\ fs' = [fs EXCEPT ![OnnxPath] = Artifact(model.weights, TRUE)]
              /\ pc' = "verify"
              /\ printed' = printed \cup {"onnx_model_saved"}
              /\ UNCHANGED result
         ELSE \* caught by the outer "except Exception"
              /\ except_Exception("Exporting")
              /\ fs' = IF outcome = "raises" THEN fs
                       ELSE [fs EXCEPT
                               ![OnnxPath] = Artifact(model.weights, FALSE)]
              /\ UNCHANGED exported
    /\ UNCHANGED <<args, deoldify_repo, idx,
                   model_path, dl, checkpoint, model, state_dict,
                   deoldify_available, evaled, torch_load, verified>>

\* what follows onnx.checker.check_model in its own try: "ONNX model is
\* valid" or, from "except Exception", "Could not verify ONNX model"; either
\* way the summary is printed and the function reaches "return True"
after_verificationMutant(outcome) ==
    IF outcome = "warning"
    THEN Return("False", "Verifying",
                {"could_not_verify", "error_during_conversion", "traceback"})
    ELSE Return("True", "Done", {"model_is_valid", "conversion_complete"})
after_verification(outcome) ==
    Return("True", "Done",
           {IF outcome = "warning" THEN "could_not_verify"
                                   ELSE "model_is_valid",
            "conversion_complete"})

\* onnx.load and onnx.checker.check_model inside their own try, then
\* "return True"
VerifyMutant ==
    /\ pc = "verify"
    /\ verified' = "valid"
    /\ after_verification("valid")
    /\ UNCHANGED <<args, fs, deoldify_repo, idx, events,
                   model_path, dl, checkpoint, model, state_dict,
                   deoldify_available, evaled, exported, torch_load>>
Verify ==
    /\ pc = "verify"
    /\ events' = Append(events, Ev("check_model", NoPath, "none", "none"))
    /\ \E outcome \in {"valid", "warning"} :
         /\ verified' = outcome
         /\ after_verification(outcome)
    /\ UNCHANGED <<args, fs, deoldify_repo, idx,
                   model_path, dl, checkpoint, model, state_dict,
                   deoldify_available, evaled, exported, torch_load>>

-----------------------------------------------------------------------------
(* The converters without a weight file *)

\* what these converters never touch
unused == <<deoldify_repo, idx, model_path, dl, checkpoint, state_dict,
            deoldify_available, torch_load>>

\* the module a library call hands back
HubModel(id, weights) == Obj("module", id, << >>, <<"hub", weights>>)

\* Real-ESRGAN, AI detector: the imports at the head of the conversion
\* function ("except ImportError: return False") and the creation of the
\* output directories, which nothing guards
HubBegin ==
    /\ pc = "start"
    /\ result = Running
    /\ family \in {"realesrgan", "ai_detector"}
    /\ \E outcome \in {"ok", "ImportError", "OSError"} :
         IF outcome = "ok"
         THEN pc' = "hub_load" /\ UNCHANGED <<printed, result>>
         ELSE IF outcome = "ImportError"
         THEN Return("False", "Loading", {"package_not_found"})
         ELSE /\ pc' = "returned"
              /\ result' = Uncaught("Loading")
              /\ printed' = printed \cup {"traceback"}
    /\ UNCHANGED <<args, fs, events, unused, model, evaled, exported,
                   verified>>

\* Real-ESRGAN: RealESRGANer(...), upsampler.model, model.eval()
RealesrganLoad ==
    /\ pc = "hub_load"
    /\ family = "realesrgan"
    /\ \E outcome \in {"ok", "raises"} :
         IF outcome = "ok"
         THEN LET m == HubModel(<<"upsampler", "model">>, "default") IN
                /\ model' = m
                /\ evaled' = eval_mode(evaled, m)
                /\ pc' = "export"
                /\ UNCHANGED <<printed, result>>
         ELSE /\ except_Exception("Loading")
              /\ UNCHANGED <<model, evaled>>
    /\ UNCHANGED <<args, fs, events, unused, exported, verified>>

\* AI detector, step 1: the tokenizer and the configuration are fetched and
\* saved; an exception on the way leaves what was saved before it
AiDetectorLoad ==
    /\ pc = "hub_load"
    /\ family = "ai_detector"
    /\ \E outcome \in {"ok", "raises", "raises_after_tokenizer"} :
         /\ fs' = IF outcome = "raises" THEN fs
                  ELSE IF outcome = "raises_after_tokenizer"
                  THEN [fs EXCEPT
                          ![TokenizerPath] = Artifact(<<"hub", variant>>, TRUE)]
                  ELSE [fs EXCEPT
                          ![TokenizerPath] = Artifact(<<"hub", variant>>, TRUE),
                          ![ConfigPath] = Artifact(<<"hub", variant>>, TRUE)]
         /\ IF outcome = "ok"
            THEN pc' = "hub_export" /\ UNCHANGED <<printed, result>>
            ELSE except_Exception("Loading")
    /\ UNCHANGED <<args, events, unused, model, evaled, exported, verified>>

\* the AI detector's summary, "Files created:": the tokenizer and config
\* files, onnx/model.onnx and, under "if quantize:", onnx/model_quantized.onnx
files_created(q) ==
    {"lists_model_onnx"} \cup (IF q THEN {"lists_model_quantized"} ELSE {})

\* AI detector, step 2: ORTModelForSequenceClassification.from_pretrained
\* (model_id, export=True) and model.save_pretrained(onnx_dir); then
\* "if quantize:"
AiDetectorExport ==
    /\ pc = "hub_export"
    /\ family = "ai_detector"
    /\ events' = Append(events, Ev("ort_export", OnnxPath, "none", "none"))
    /\ \E outcome \in {"ok", "export_raises", "save_raises"} :
         IF outcome = "ok"
         THEN LET m == HubModel(<<"ORTModel">>, variant) IN
                /\ model' = m
                /\ exported' = m
                /\ fs' = [fs EXCEPT ![OnnxPath] = Artifact(m.weights, TRUE)]
                /\ IF quantize
                   THEN pc' = "hub_quantize" /\ UNCHANGED <<printed, result>>
                   ELSE Return("True", "Done",
                               {"conversion_complete"} \cup files_created(quantize))
         ELSE /\ except_Exception("Exporting")
              /\ \E partial \in BOOLEAN :
                   fs' = IF outcome = "save_raises" /\ partial
                         THEN [fs EXCEPT ![OnnxPath] =
                                 Artifact(<<"hub", variant>>, FALSE)]
                         ELSE fs
              /\ UNCHANGED <<model, exported>>
    /\ UNCHANGED <<args, unused, evaled, verified>>

\* the inner "except Exception as e:" around the quantizer: "Quantization
\* failed (non-critical)", "Using unquantized model instead"; the function
\* goes on to its summary and "return True"
except_quantizationMutant ==
    Return("False", "Exporting",
           {"quantization_failed", "error_during_conversion", "traceback"})
except_quantization ==
    Return("True", "Done",
           {"quantization_failed", "conversion_complete"}
             \cup files_created(quantize))

\* AI detector, step 3: the quantizer inside its own try; "except Exception"
\* prints that the failure is not critical; then "return True"
AiDetectorQuantize ==
    /\ pc = "hub_quantize"
    /\ family = "ai_detector"
    /\ events' = Append(events, Ev("quantize", QuantizedPath, "none", "none"))
    /\ \E outcome \in {"ok", "raises", "raises_writing"} :
         /\ fs' = IF outcome = "ok"
                  THEN [fs EXCEPT
                          ![QuantizedPath] = Artifact(model.weights, TRUE)]
                  ELSE IF outcome = "raises_writing"
                  THEN [fs EXCEPT
                          ![QuantizedPath] = Artifact(model.weights, FALSE)]
                  ELSE fs
         /\ IF outcome = "ok"
            THEN Return("True", "Done",
                        {"quantized_saved", "conversion_complete"}
                          \cup files_created(quantize))
            ELSE except_quantization
    /\ UNCHANGED <<args, unused, model, evaled, exported, verified>>

\* Fakespot: main() has no try at all.  os.makedirs, the tokenizer, the
\* model, model.eval()
FakespotLoad ==
    /\ pc = "start"
    /\ result = Running
    /\ family = "fakespot"
    /\ \E outcome \in {"ok", "raises"} :
         IF outcome = "ok"
         THEN LET m == HubModel(<<"AutoModel">>, variant) IN
                /\ model' = m
                /\ evaled' = eval_mode(evaled, m)
                /\ pc' = "hub_export"
                /\ UNCHANGED <<printed, result>>
         ELSE /\ pc' = "returned"
              /\ result' = Uncaught("Loading")
              /\ printed' = printed \cup {"traceback"}
              /\ UNCHANGED <<model, evaled>>
    /\ UNCHANGED <<args, fs, events, unused, exported, verified>>

\* Fakespot: the dummy inputs and torch.onnx.export under torch.no_grad()
FakespotExport ==
    /\ pc = "hub_export"
    /\ family = "fakespot"
    /\ events' = Append(events, Ev("export", FlatOnnxPath, "none", "none"))
    /\ \E outcome \in {"ok", "raises", "raises_writing"} :
         IF outcome = "ok"
         THEN /\ exported' = model
              /\ fs' = [fs EXCEPT ![FlatOnnxPath] = Artifact(model.weights, TRUE)]
              /\ pc' = "hub_save"
              /\ UNCHANGED <<printed, result>>
         ELSE /\ pc' = "returned"
              /\ result' = Uncaught("Exporting")
              /\ printed' = printed \cup {"traceback"}
              /\ fs' = IF outcome = "raises" THEN fs
                       ELSE [fs EXCEPT
                               ![FlatOnnxPath] = Artifact(model.weights, FALSE)]
              /\ UNCHANGED exported
    /\ UNCHANGED <<args, unused, model, evaled, verified>>

\* Fakespot: tokenizer.save_pretrained, model.config.save_pretrained and the
\* end of main(): the process exits with status 0
FakespotSave ==
    /\ pc = "hub_save"
    /\ family = "fakespot"
    /\ \E outcome \in {"ok", "raises", "raises_after_tokenizer"} :
         /\ fs' = IF outcome = "raises" THEN fs
                  ELSE IF outcome = "raises_after_tokenizer"
                  THEN [fs EXCEPT
                          ![TokenizerPath] = Artifact(<<"hub", variant>>, TRUE)]
                  ELSE [fs EXCEPT
                          ![TokenizerPath] = Artifact(<<"hub", variant>>, TRUE),
                          ![ConfigPath] = Artifact(<<"hub", variant>>, TRUE)]
         /\ pc' = "returned"
         /\ IF outcome = "ok"
            THEN /\ result' = [ret |-> "None", stage |-> "Done", exit |-> 0]
                 /\ printed' = printed \cup {"done"}
            ELSE /\ result' = Uncaught("Saving")
                 /\ printed' = printed \cup {"traceback"}
    /\ UNCHANGED <<args, events, unused, model, evaled, exported, verified>>

Hub ==
    \/ HubBegin
    \/ RealesrganLoad
    \/ AiDetectorLoad
    \/ AiDetectorExport
    \/ AiDetectorQuantize
    \/ FakespotLoad
    \/ FakespotExport
    \/ FakespotSave

-----------------------------------------------------------------------------
(* Specifications *)

Locate ==
    \/ DependenciesMissing
    \/ Begin
    \/ ProbeLocal
    \/ Prompt
    \/ PromptRaises
    \/ Clone
    \/ RemoteNext
    \/ UrlopenHTTPError
    \/ UrlopenOtherError
    \/ UrlopenOk
    \/ ReadChunk
    \/ ReadChunkRaises
    \/ FetchReturn
    \/ Search

Resolve ==
    \/ LoadRaises
    \/ ResolvePrompting
    \/ ResolveDeoldify
    \/ ImportOk
    \/ ImportRetry
    \/ FactoryPrepare
    \/ FactoryBuild
    \/ Unwrap

Finish ==
    \/ Export
    \/ Verify

\* The same command is started again after its process has exited: a new
\* process, whose variables start as in Init, on the filesystem and beside
\* the DeOldify clone that the earlier run left.
Rerun ==
    /\ pc = "returned"
    /\ ~earlier.ran
    /\ earlier' = [ran |-> TRUE, result |-> result, events |-> events,
                   printed |-> printed,
                   file |-> IF arg_model_path = NoPath THEN Absent
                            ELSE fs0[arg_model_path],
                   checkpoint |-> checkpoint, model |-> model,
                   available |-> deoldify_available]
    /\ fs0' = fs
    /\ pc' = "start"
    /\ idx' = 0
    /\ model_path' = NoPath
    /\ dl' = Idle
    /\ events' = << >>
    /\ checkpoint' = NoObject
    /\ model' = NoObject
    /\ state_dict' = NoObject
    /\ deoldify_available' = FALSE
    /\ evaled' = {}
    /\ exported' = NoObject
    /\ torch_load' = "original"
    /\ verified' = "none"
    /\ printed' = {}
    /\ result' = Running
    /\ UNCHANGED <<family, variant, arg_model_path, quantize, fs,
                   deoldify_repo, site, gen>>

\* A whole run of any of the scripts.  The run as a whole is followed with
\* the module, the non-dictionary and the empty dictionary as checkpoints;
\* the resolver's treatment of the other dictionaries is the subject of
\* ResolverSpec and WeightStateSpec.
Next == Locate \/ Load(0) \/ Resolve \/ Finish \/ Hub

Spec == Init /\ [][Next]_vars

\* The same runs when every call that is pending returns or raises: a step
\* that can be taken is taken in the end.
LiveSpec == Spec /\ WF_vars(Next)

\* The resolver alone: a run given --model-path, at "# Load model", its
\* checkpoint any dictionary of at most MaxKeys entries.
ResolverInit ==
    /\ Init
    /\ arg_model_path = UserPath
    /\ Exists(UserPath)
    /\ \A p \in DOMAIN fs : Exists(p) => p \in {UserPath, expected_weight_path}

ResolverNext ==
    DependenciesMissing \/ Begin \/ Load(MaxKeys) \/ Resolve \/ Finish

ResolverSpec == ResolverInit /\ [][ResolverNext]_vars

\* The resolver on raw weight mappings of up to MaxValues entries.
WeightStateNext ==
    DependenciesMissing \/ Begin \/ LoadWeights \/ Resolve \/ Finish

WeightStateSpec == ResolverInit /\ [][WeightStateNext]_vars

\* Two runs of a weight-file converter, one after the other, started
\* without --model-path on a machine that holds no weight file yet.
RerunInit ==
    /\ Init
    /\ family \in Families
    /\ arg_model_path = NoPath
    /\ \A p \in DOMAIN fs : ~Exists(p)

RerunNext == Locate \/ Load(0) \/ Resolve \/ Finish \/ Rerun

RerunSpec == RerunInit /\ [][RerunNext]_vars

\* The same checkpoint file given with --model-path to two runs, one after
\* the other.
ResolveTwiceNext ==
    DependenciesMissing \/ Begin \/ Load(1) \/ Resolve \/ Finish \/ Rerun

ResolveTwiceSpec == ResolverInit /\ [][ResolveTwiceNext]_vars

\* A run started without --model-path where no declared local candidate
\* exists, followed by a second run when its locator succeeded; weight files
\* may stand in the DeOldify checkout for the repository search to find.
WriteBackInit ==
    /\ Init
    /\ family \in Families
    /\ arg_model_path = NoPath
    /\ \A i \in 1..Len(possible_paths(family, variant)) :
         ~Exists(possible_paths(family, variant)[i])

\* the command is started again after a run whose locator returned a path
RerunAfterLocated == model_path # NoPath /\ Rerun

WriteBackNext ==
    Locate \/ Load(0) \/ Resolve \/ Finish \/ RerunAfterLocated

WriteBackSpec == WriteBackInit /\ [][WriteBackNext]_vars

-----------------------------------------------------------------------------
(* generate-unit-pages.py *)

\* at most MaxUnits units are defined in a category
MaxUnits == 3

\* the generator is started at most MaxRuns times
MaxRuns == 2

\* the category ids of unit-definitions.js
CategoryIds == {"length", "mass"}

\* the unit ids of a category
UnitIds(c) == IF c = "length" THEN {"cm", "inch", "m"} ELSE {"kg", "lb"}

\* the lists of at most n different elements of S
Lists(S, n) ==
    { l \in UNION { [1..k -> S] : k \in 1..n } :
        \A a, b \in DOMAIN l : a # b => l[a] # l[b] }

\* the entry sitemap.xml holds before the generator has run
home_loc == "https://example.com/"

\* what extract_units_from_js returns, categories in the order of the
\* CATEGORIES array and units[category] in the order of the addUnits
\* blocks, beside a sitemap.xml with its closing tag or without it
Sites ==
    { [categories |-> cs, units |-> us, sitemap |-> sm, pages |-> {}] :
        cs \in { << >>, <<"length">>, <<"length", "mass">> },
        us \in UNION { { l \in [D -> UNION { Lists(UnitIds(c), MaxUnits)
                                               : c \in D }] :
                            \A c \in D : l[c] \in Lists(UnitIds(c), MaxUnits) }
                       : D \in SUBSET CategoryIds },
        sm \in { <<urlset_end>>, <<home_loc, urlset_end>>, <<home_loc>> } }

\* f'{category_dir}/{from_unit["id"]}-to-{to_unit["id"]}'
combo_dir(category_id, from_id, to_id) ==
    "convert/units/" \o category_id \o "/" \o from_id \o "-to-" \o to_id

\* f'https://example.com{base_path}' with base_path = f'/{combo_dir}'
loc(category_id, from_id, to_id) ==
    "https://example.com" \o "/" \o combo_dir(category_id, from_id, to_id)

\* content.replace('</urlset>', f'{entries_xml}\n</urlset>'): the entries
\* go in before every occurrence of the closing tag
RECURSIVE replace(_, _)
replace(content, entries) ==
    IF content = << >> THEN << >>
    ELSE (IF Head(content) = urlset_end
          THEN entries \o <<urlset_end>>
          ELSE <<Head(content)>>) \o replace(Tail(content), entries)

\* main() up to the loops: "if not units or not categories: return"
GenStart ==
    /\ gen.pc = "idle"
    /\ gen.runs < MaxRuns
    /\ IF DOMAIN site.units = {} \/ site.categories = << >>
       THEN gen' = [gen EXCEPT !.runs = @ + 1]
       ELSE gen' = [gen EXCEPT !.pc = "pages", !.cat = 1, !.i = 1, !.j = 1,
                               !.sitemap_entries = << >>,
                               !.total_pages = 0]
    /\ UNCHANGED <<family, variant, arg_model_path, quantize, fs, fs0,
                   deoldify_repo, pc, idx, model_path, dl, events, locals,
                   printed, result, earlier, site>>

\* one step of "for category_id ...: for i, from_unit ...: for j, to_unit
\* ...:": a category without units and the pair i == j are skipped, any
\* other pair gets its directory, its index.html and its sitemap entry
GenPage ==
    /\ gen.pc = "pages"
    /\ IF gen.cat > Len(site.categories)
       THEN gen' = [gen EXCEPT !.pc = "sitemap"] /\ UNCHANGED site
       ELSE LET category_id == site.categories[gen.cat] IN
         IF category_id \notin DOMAIN site.units
         THEN gen' = [gen EXCEPT !.cat = @ + 1] /\ UNCHANGED site
         ELSE LET category_units == site.units[category_id] IN
           IF gen.i > Len(category_units)
           THEN gen' = [gen EXCEPT !.cat = @ + 1, !.i = 1, !.j = 1]
                /\ UNCHANGED site
           ELSE IF gen.j > Len(category_units)
           THEN gen' = [gen EXCEPT !.i = @ + 1, !.j = 1] /\ UNCHANGED site
           ELSE IF gen.i = gen.j
           THEN gen' = [gen EXCEPT !.j = @ + 1] /\ UNCHANGED site
           ELSE LET from_id == category_units[gen.i]
                    to_id == category_units[gen.j]
                IN /\ site' = [site EXCEPT !.pages = @ \cup
                                  {combo_dir(category_id, from_id, to_id)}]
                   /\ gen' = [gen EXCEPT
                                !.sitemap_entries =
                                   Append(@, loc(category_id, from_id, to_id)),
                                !.total_pages = @ + 1,
                                !.j = @ + 1]
    /\ UNCHANGED <<family, variant, arg_model_path, quantize, fs, fs0,
                   deoldify_repo, pc, idx, model_path, dl, events, locals,
                   printed, result, earlier>>

\* update_sitemap(sitemap_entries) and the end of main()
update_sitemap ==
    /\ gen.pc = "sitemap"
    /\ LET content == site.sitemap IN
         site' = IF \E k \in 1..Len(content) : content[k] = urlset_end
                 THEN [site EXCEPT !.sitemap =
                         replace(content, gen.sitemap_entries)]
                 ELSE site
    /\ gen' = [gen EXCEPT !.pc = "idle", !.runs = @ + 1]
    /\ UNCHANGED <<family, variant, arg_model_path, quantize, fs, fs0,
                   deoldify_repo, pc, idx, model_path, dl, events, locals,
                   printed, result, earlier>>

\* The page generator run up to MaxRuns times on one site; no conversion
\* script runs beside it.
GeneratorInit ==
    /\ ConverterInit
    /\ family = "fakespot"
    /\ site \in Sites
    /\ gen = NotStarted

GeneratorNext == GenStart \/ GenPage \/ update_sitemap

GeneratorSpec == GeneratorInit /\ [][GeneratorNext]_vars

-----------------------------------------------------------------------------
(* Vocabulary of the properties *)

\* the calls of download_file made so far, and its returns, in order
Calls == SelectSeq(events, LAMBDA e : e.op = "download_file")

Returns == SelectSeq(events, LAMBDA e : e.op = "download_file_return")

Sources == download_sources(family)

Declared == possible_paths(family, variant)

\* the run was started without --model-path
NoExplicitPath == arg_model_path = NoPath

\* the declared local candidates that existed when the run started
LocalHits == { i \in 1..Len(Declared) : fs0[Declared[i]].exists }

FirstLocalHit == Declared[CHOOSE i \in LocalHits : \A j \in LocalHits : i <= j]

AllLocalAbsent == NoExplicitPath /\ LocalHits = {}

\* every remote candidate has been tried and none succeeded
EveryRemoteFailed ==
    /\ Len(Returns) = Len(Sources)
    /\ \A k \in 1..Len(Returns) : Returns[k].res # "ok"

\* DeOldify's repository search has nothing to find
RepoSearchEmpty ==
    family = "deoldify" => \A p \in SearchLocations(variant) : ~fs0[p].exists

\* the run ended at Locating with the manual download instructions
LocatingFailed ==
    /\ pc = "returned"
    /\ result = Returned("False", "Locating")
    /\ "download_instructions" \in printed

\* nothing of loading, resolving, exporting or verifying has happened
NoLaterStage ==
    /\ \A k \in 1..Len(events) :
         events[k].op \notin {"torch_load", "export", "check_model"}
    /\ checkpoint = NoObject
    /\ model = NoObject
    /\ exported = NoObject

\* the locator is past its last step
PastLocating == pc \notin {"start", "probe", "prompt", "clone", "remote",
                           "download_file", "chunks", "fetch_ret", "search"}

-----------------------------------------------------------------------------
(* C1 *)

\* C1: in a run started without an explicit model path in which a declared
\* local candidate exists, the weight path is the first existing candidate
\* in declared order (it is the path torch.load is given) and download_file
\* is never called.
C1_LocalFirst ==
    (NoExplicitPath /\ LocalHits # {}) =>
        /\ Calls = << >>
        /\ pc \notin {"start", "probe"} => model_path = FirstLocalHit
        /\ \A k \in 1..Len(events) :
             events[k].op = "torch_load" => events[k].path = FirstLocalHit

\* a run that found its weights at the second candidate while a later one
\* existed too, and converted them
C1_Witness ==
    /\ NoExplicitPath
    /\ LocalHits = {2, 3}
    /\ model_path = Declared[2]
    /\ pc = "returned"
    /\ result.ret = "True"

-----------------------------------------------------------------------------
(* C2 *)

\* C2: the remote candidates are fetched in their declared order, one at a
\* time; candidate k+1 is called only after candidate k returned a failure,
\* so nothing is called after a success.
C2_RemoteOrder ==
    LET calls == Calls
        returns == Returns
        both == SelectSeq(events, LAMBDA e :
                    e.op \in {"download_file", "download_file_return"})
    IN /\ Len(calls) <= Len(Sources)
       /\ \A k \in 1..Len(calls) : calls[k].src = Sources[k]
       /\ Len(returns) <= Len(calls)
       /\ Len(calls) <= Len(returns) + 1
       /\ \A k \in 1..Len(returns) : returns[k].src = calls[k].src
       /\ \A k \in 1..Len(calls) : k < Len(calls) => returns[k].res # "ok"
       /\ \A k \in 1..Len(both) :
            both[k].op = IF k % 2 = 1 THEN "download_file"
                         ELSE "download_file_return"

\* the third candidate succeeded after the first two had failed
C2_Witness ==
    /\ Len(Returns) = 3
    /\ Returns[1].res # "ok"
    /\ Returns[2].res # "ok"
    /\ Returns[3].res = "ok"
    /\ pc = "load"

-----------------------------------------------------------------------------
(* C3 *)

\* C3: a failed fetch of any kind only moves the locator to the next remote
\* candidate: a run in which download_file was called fails at Locating only
\* when every candidate has been tried and has failed, and once a candidate
\* answers with a body the locator yields the default path holding that
\* candidate's bytes (Scenario A: missing local paths, 404, then 200).
C3_FailuresAbsorbed ==
    /\ (Calls # << >> /\ pc = "returned" /\ result.stage = "Locating")
          => EveryRemoteFailed
    /\ \A k \in 1..Len(Returns) :
         Returns[k].res \in
            {"ok", "Unauthorized", "NotFound", "HttpError", "TransportError"}
    /\ \A k \in 1..Len(Returns) :
         (Returns[k].res = "ok" /\ pc # "fetch_ret") =>
            /\ PastLocating
            /\ result.stage # "Locating"
            /\ model_path = DestFile
            /\ fs[DestFile].exists
            /\ fs[DestFile].complete
            /\ fs[DestFile].content = RemoteContent(Sources[k])

\* Scenario A: no local path, a 404, then a 200 whose bytes are converted
C3_Witness ==
    /\ AllLocalAbsent
    /\ Len(Returns) = 2
    /\ Returns[1].res = "NotFound"
    /\ Returns[2].res = "ok"
    /\ model_path = DestFile
    /\ fs[DestFile].content = RemoteContent(Sources[2])
    /\ fs[DestFile].len > chunk_size
    /\ pc = "returned"
    /\ result.ret = "True"

-----------------------------------------------------------------------------
(* C4 *)

\* what C4 promises of a locator that found nothing
C4_NotFoundOutcome ==
    /\ pc \in {"fetch_ret", "remote", "search"} \/ LocatingFailed
    /\ NoLaterStage
    /\ result.ret # "raised"

\* C4 as stated: when every declared local candidate is absent and every
\* remote candidate has failed, the run ends with the manual download
\* instructions and a failure return, and nothing is loaded or exported.
C4_Original == (AllLocalAbsent /\ EveryRemoteFailed) => C4_NotFoundOutcome

\* C4 amended: when every declared local candidate is absent, every remote
\* candidate has failed and, in the DeOldify converter, none of the
\* locations of the repository search holds a weight file, the run ends with
\* the manual download instructions and a failure return, no exception
\* escapes, and nothing is loaded or exported.
C4_Amended ==
    (AllLocalAbsent /\ EveryRemoteFailed /\ RepoSearchEmpty)
        => C4_NotFoundOutcome

\* a DeOldify run that tried both URLs, searched the repository in vain and
\* returned failure
C4_Witness ==
    /\ family = "deoldify"
    /\ AllLocalAbsent
    /\ EveryRemoteFailed
    /\ RepoSearchEmpty
    /\ \E k \in 1..Len(events) :
         events[k].op = "probe" /\ events[k].path[1] = "repo_checkpoints"
    /\ LocatingFailed

-----------------------------------------------------------------------------
(* C5 *)

-----------------------------------------------------------------------------
(* C6 *)

\* C6: with a model path given, the locator does nothing: no path is probed,
\* no prompt is shown, nothing is cloned or downloaded before loading; the
\* first thing the run does is torch.load of exactly the given path, and a
\* run that fails does not fail at Locating.
C6_ExplicitPathBypasses ==
    ~NoExplicitPath =>
        /\ \A k \in 1..Len(events) :
             events[k].op \notin
                {"probe", "input", "download_file", "download_file_return"}
        /\ pc # "start" => model_path = arg_model_path
        /\ events # << >> =>
             events[1] = Ev("torch_load", arg_model_path, "none", "none")
        /\ \A k \in 1..Len(events) :
             events[k].op = "torch_load" => events[k].path = arg_model_path
        /\ result.stage # "Locating"
        /\ fs[DestFile] = fs0[DestFile]

\* a run given a path that does not exist, while a declared candidate does:
\* it fails at Loading
C6_Witness ==
    /\ ~NoExplicitPath
    /\ ~fs0[arg_model_path].exists
    /\ LocalHits # {}
    /\ pc = "returned"
    /\ result = Returned("False", "Loading")

-----------------------------------------------------------------------------
(* C7 *)

\* C7: download_file always returns to its caller; it returns True exactly
\* when no exception was raised and the whole body stands in the
\* destination, and otherwise False with one message: Unauthorized exactly
\* for HTTP 401, NotFound exactly for 404, HttpError exactly for the other
\* HTTP statuses, TransportError exactly for every other exception.
C7_DownloadFileTotal ==
    /\ \A k \in 1..Len(events) :
         events[k].op = "download_file" =>
            IF k = Len(events) THEN pc \in {"download_file", "chunks"}
            ELSE events[k + 1].op = "download_file_return"
    /\ pc = "fetch_ret" =>
         /\ dl.ret \in {"True", "False"}
         /\ dl.ret = "True" <=>
              /\ dl.exc = "none"
              /\ dl.remaining = 0
              /\ fs[DestFile].len = dl.body
              /\ fs[DestFile].content = RemoteContent(dl.src)
         /\ dl.ret = "False" =>
              /\ dl.kind \in {"Unauthorized", "NotFound", "HttpError",
                              "TransportError"}
              /\ dl.kind = "Unauthorized" <=>
                    (dl.exc = "HTTPError" /\ dl.code = 401)
              /\ dl.kind = "NotFound" <=>
                    (dl.exc = "HTTPError" /\ dl.code = 404)
              /\ dl.kind = "HttpError" <=>
                    (dl.exc = "HTTPError" /\ dl.code \notin {401, 404})
              /\ dl.kind = "TransportError" <=> dl.exc = "Exception"

\* a 403: neither of the two statuses with a message of their own
C7_Witness ==
    /\ pc = "fetch_ret"
    /\ dl.ret = "False"
    /\ dl.exc = "HTTPError"
    /\ dl.code = 403
    /\ dl.kind = "HttpError"

-----------------------------------------------------------------------------
(* C8 *)

\* C8: while a body is streamed the byte counter starts at 0, grows by each
\* chunk read (more than 0, at most chunk_size bytes), equals the bytes
\* written to the destination and is what the last progress line shows; a
\* progress line carries a percentage exactly when Content-Length is greater
\* than 0; the loop is left at the first empty chunk, after one line per
\* non-empty chunk.
C8_Progress ==
    (pc \in {"chunks", "fetch_ret"} /\ dl.opened) =>
        LET lines == dl.progress IN
          /\ dl.downloaded = fs[DestFile].len
          /\ dl.downloaded + dl.remaining = dl.body
          /\ lines = << >> => dl.downloaded = 0
          /\ lines # << >> => lines[Len(lines)].bytes = dl.downloaded
          /\ \A i \in 1..Len(lines) :
               LET before == IF i = 1 THEN 0 ELSE lines[i - 1].bytes IN
                 /\ lines[i].bytes > before
                 /\ lines[i].bytes - before <= chunk_size
                 /\ lines[i].has_percent <=> dl.total_size > 0
          /\ dl.ret = "True" =>
               /\ dl.remaining = 0
               /\ Len(lines) = (dl.body + chunk_size - 1) \div chunk_size

\* a body of two chunks with a Content-Length, streamed to the end
C8_Witness ==
    /\ pc = "fetch_ret"
    /\ dl.ret = "True"
    /\ dl.total_size > 0
    /\ Len(dl.progress) = 2
    /\ dl.progress[1].percent < dl.progress[2].percent
    /\ dl.progress[2].percent = 100

-----------------------------------------------------------------------------
(* C9 *)

\* C9: when torch.load returns a module (not a dictionary), resolution
\* succeeds with that module as it is and the run goes on to the export.
C9_ModuleUsedAsIs ==
    (checkpoint.kind = "module" /\ pc \notin {"resolve", "unwrap"}) =>
        /\ pc \in {"export", "verify", "returned"}
        /\ result.stage \notin {"Loading", "Resolving"}
        /\ model.kind = "module"
        /\ model.weights = checkpoint.weights

-----------------------------------------------------------------------------
(* C10 *)

\* the conventional keys in the order the claim gives them
conventional_keys(f) ==
    IF HasAlias(f) THEN <<"model", "net", Alias(f)>> ELSE <<"model", "net">>

\* the positions of the conventional keys under which a module is stored
ModuleKeys(f, d) ==
    { i \in 1..Len(conventional_keys(f)) :
        /\ HasKey(d, conventional_keys(f)[i])
        /\ Item(d, conventional_keys(f)[i]).kind = "module" }

\* C10: for a dictionary checkpoint the resolver selects the value of the
\* first of 'model', 'net', alias that holds a module; a key that is present
\* without holding a module does not stop the search.
C10_FirstModuleWins ==
    (/\ checkpoint.kind = "dict"
     /\ ModuleKeys(family, checkpoint) # {}
     /\ pc \notin {"resolve", "unwrap"}) =>
        LET first == CHOOSE i \in ModuleKeys(family, checkpoint) :
                        \A j \in ModuleKeys(family, checkpoint) : i <= j
            key == conventional_keys(family)[first]
        IN /\ model.kind = "module"
           /\ Len(model.id) >= 2
           /\ SubSeq(model.id, 1, 2) = <<"checkpoint", key>>
           /\ result.stage # "Resolving"

-----------------------------------------------------------------------------
(* C11 *)

\* the checkpoint is a dictionary without any of the keys the resolver
\* looks up by name, and the resolver is past its decision
RawContainerResolved ==
    /\ family = "deoldify"
    /\ checkpoint.kind = "dict"
    /\ \A k \in {"model", "net", "generator", "state_dict"} :
         ~HasKey(checkpoint, k)
    /\ pc \notin {"load", "resolve"}

\* the container itself was taken as the weight state
TakenAsWeightState ==
    /\ state_dict.kind = "dict"
    /\ state_dict.items = checkpoint.items
    /\ result # Returned("False", "Resolving") \/ "no_state_dict" \notin printed

\* the positions of the container's values that are tensors or mappings
TensorLikeAt(d) ==
    { i \in 1..Len(d.items) : d.items[i][2] \in {"tensor", "dict"} }

\* C11 as stated: the container is treated as weight state exactly when a
\* majority of its values are tensor-like or nested mappings.
C11_Original ==
    RawContainerResolved =>
        (TakenAsWeightState <=>
            2 * Cardinality(TensorLikeAt(checkpoint)) > Len(checkpoint.items))

\* C11 amended: the container is treated as weight state exactly when every
\* one of its first five values (all of them when it has fewer, none when it
\* is empty) is tensor-like or a nested mapping; otherwise the run fails at
\* Resolving.
C11_Amended ==
    RawContainerResolved =>
        /\ TakenAsWeightState <=>
             \A i \in 1..Len(checkpoint.items) :
                i <= 5 => i \in TensorLikeAt(checkpoint)
        /\ ~TakenAsWeightState =>
             /\ state_dict = NoneObj
             /\ pc = "returned"
             /\ result = Returned("False", "Resolving")
             /\ "no_state_dict" \in printed

\* a mapping of six values, the sixth of them not tensor-like, taken as
\* weight state and converted
C11_Witness ==
    /\ RawContainerResolved
    /\ Len(checkpoint.items) = 6
    /\ TensorLikeAt(checkpoint) = 1..5
    /\ TakenAsWeightState
    /\ pc = "returned"
    /\ result.ret = "True"

-----------------------------------------------------------------------------
(* C12 *)

\* the calls of load_state_dict made so far
StateLoads == SelectSeq(events, LAMBDA e : e.op = "load_state_dict")

\* the weight state found in the checkpoint lacks parameters of the
\* generator, or holds keys the generator does not have
KeySetsDiffer ==
    /\ state_dict.kind = "dict"
    /\ { state_dict.items[i][1] : i \in 1..Len(state_dict.items) }
          # generator_keys

\* some key of the weight state names a parameter of the generator
SomeKeyShared ==
    \E i \in 1..Len(state_dict.items) : state_dict.items[i][1] \in generator_keys

\* C12: loading a weight state whose keys differ from the generator's never
\* raises on account of the keys: the load fails only for a state that is no
\* mapping or for a tensor of the wrong shape under a shared name; after it
\* the run is past Resolving with the generator carrying those weights, and
\* succeeds exactly when the export does, as with matching keys.
C12_NonStrictLoading ==
    StateLoads # << >> =>
        LET load == StateLoads[1] IN
          /\ Len(StateLoads) = 1
          /\ load.res \in {"ok", "TypeError", "size_mismatch"}
          /\ load.res = "TypeError" <=> state_dict.kind # "dict"
          /\ load.res = "size_mismatch" => SomeKeyShared
          /\ load.res = "ok" =>
               /\ pc \in {"unwrap", "export", "verify", "returned"}
               /\ model.weights = state_dict.weights
               /\ result.stage # "Resolving"
               /\ pc = "returned" =>
                    (result.ret = "True" <=> exported # NoObject)
          /\ load.res # "ok" =>
               /\ pc = "returned"
               /\ result = Returned("False", "Resolving")

\* a weight state with an unexpected key beside the generator's own, loaded
\* and converted
C12_Witness ==
    /\ StateLoads # << >>
    /\ StateLoads[1].res = "ok"
    /\ KeySetsDiffer
    /\ SomeKeyShared
    /\ Len(state_dict.items) > ArchParams
    /\ pc = "returned"
    /\ result = Returned("True", "Done")

-----------------------------------------------------------------------------
(* C13 *)

\* the resolver is through and has bound no module to model
NoModuleResolved ==
    /\ checkpoint # NoObject
    /\ pc \notin {"load", "resolve", "import", "factory", "gen", "unwrap"}
    /\ model.kind # "module"

\* the converter has no architecture to build: FBCNN, SCUNet and Zero-DCE
\* never have one, DeOldify has none when deoldify.generators is not
\* importable
NoFactory == family \in Prompting \/ ~deoldify_available

\* C13: when resolution finds no module and there is no architecture factory
\* (the empty dictionary included), the conversion function returns False
\* from the resolving step and torch.onnx.export is never called.
C13_ResolutionFails ==
    (NoModuleResolved /\ NoFactory) =>
        /\ pc = "returned"
        /\ result = Returned("False", "Resolving")
        /\ exported = NoObject
        /\ \A k \in 1..Len(events) :
             events[k].op \notin {"export", "check_model"}

\* the empty dictionary given to a converter without a factory
C13_Witness ==
    /\ family \in Prompting
    /\ checkpoint.kind = "dict"
    /\ checkpoint.items = << >>
    /\ NoModuleResolved
    /\ "model_is_dictionary" \in printed
    /\ result = Returned("False", "Resolving")

-----------------------------------------------------------------------------
(* C14 *)

\* Scenario B: the checkpoint is {'state_dict': <weight mapping>}, the
\* generator architecture is importable and gen_inference_deep did not fail
\* for good; the resolver is through
ScenarioB ==
    /\ family = "deoldify"
    /\ checkpoint.kind = "dict"
    /\ checkpoint.items = << <<"state_dict", "dict">> >>
    /\ deoldify_available
    /\ "error_creating_generator" \notin printed
    /\ pc \notin {"load", "resolve", "import", "factory", "gen", "unwrap"}

\* C14: in Scenario B resolution succeeds with a module built by the factory
\* that carries the weights of the checkpoint's state_dict, and the run goes
\* on to the export.
C14_ScenarioB ==
    ScenarioB =>
        /\ pc \in {"export", "verify", "returned"}
        /\ result.stage \in {"none", "Exporting", "Done"}
        /\ model.kind = "module"
        /\ model.id[1] = "gen_inference_deep"
        /\ model.weights = checkpoint.weights

-----------------------------------------------------------------------------
(* C15 *)

\* the next step of the run is a call of torch.onnx.export(model, ...)
AboutToExport ==
    \/ pc = "export"
    \/ pc = "hub_export" /\ family = "fakespot"

\* C15: whenever torch.onnx.export is called, the object passed to it is a
\* module on which eval() has been called before, the very object left
\* after unwrapping a wrapper's .model or .generator; and what has been
\* exported is that evaluated object.
C15_EvalBeforeExport ==
    /\ AboutToExport =>
         /\ model.kind = "module"
         /\ model.id \in evaled
    /\ (exported # NoObject /\ family # "ai_detector") =>
         /\ exported = model
         /\ exported.id \in evaled

\* a DeOldify run that unwrapped the Learner: eval() was called on the
\* Learner's model, not on the Learner, and that model was exported
C15_Witness ==
    /\ family = "deoldify"
    /\ exported.kind = "module"
    /\ exported.id = <<"gen_inference_deep", "model">>
    /\ evaled = {exported.id}
    /\ pc = "returned"
    /\ result = Returned("True", "Done")

(* C16 *)

\* the calls of the quantizer, in order
Quantizations == SelectSeq(events, LAMBDA e : e.op = "quantize")

\* C16: the quantizer is called only by the AI detector converter and only
\* when its quantize flag is set; and when the quantization has failed, the
\* function has returned True all the same, the process exits with 0, and
\* the model.onnx saved before is whole and holds the exported weights.
C16_QuantizationNonFatal ==
    /\ Len(Quantizations) > 0 => (quantize /\ family = "ai_detector")
    /\ Len(Quantizations) <= 1
    /\ "quantization_failed" \in printed =>
         /\ Len(Quantizations) = 1
         /\ pc = "returned"
         /\ result.ret = "True"
         /\ result.stage = "Done"
         /\ result.exit = 0
         /\ fs[OnnxPath].exists
         /\ fs[OnnxPath].complete
         /\ fs[OnnxPath].content = exported.weights
         /\ ~(fs[QuantizedPath].exists /\ fs[QuantizedPath].complete)

\* a run whose quantizer raised half way through model_quantized.onnx: the
\* warning is printed and the run ends as a success
C16_Witness ==
    /\ family = "ai_detector"
    /\ quantize
    /\ "quantization_failed" \in printed
    /\ fs[QuantizedPath].exists
    /\ ~fs[QuantizedPath].complete
    /\ fs[OnnxPath].complete
    /\ result.exit = 0

(* C17 *)

\* the calls of onnx.checker.check_model
Verifications == SelectSeq(events, LAMBDA e : e.op = "check_model")

\* C17: the verifier runs only on an exported model, and once it has run
\* the function has returned True and the process exits with 0, whether the
\* verifier accepted the file or raised.
C17_VerifierNonFatal ==
    /\ Len(Verifications) > 0 =>
         /\ exported # NoObject
         /\ verified \in {"valid", "warning"}
         /\ pc = "returned"
         /\ result.ret = "True"
         /\ result.stage = "Done"
         /\ result.exit = 0
    /\ "could_not_verify" \in printed <=> verified = "warning"

\* a Real-ESRGAN run whose verifier raised: a warning and a success
C17_Witness ==
    /\ family = "realesrgan"
    /\ verified = "warning"
    /\ "could_not_verify" \in printed
    /\ exported # NoObject
    /\ result.ret = "True"
    /\ result.exit = 0

(* C18 *)

\* the calls of the exporter: torch.onnx.export, or the AI detector's
\* from_pretrained(export=True) with save_pretrained
Exports ==
    SelectSeq(events, LAMBDA e : e.op \in {"export", "ort_export"})

FatalStages == {"Locating", "Loading", "Resolving"}

\* the conversion function was called and did not succeed
ConversionFailed == result.ret \in {"False", "raised"}

\* C18 as stated: a run fails only at Locating, Loading or Resolving, and a
\* run that has called the exporter ends at Done.
C18_Original ==
    /\ ConversionFailed => result.stage \in FatalStages
    /\ (Len(Exports) > 0 /\ pc = "returned") => result.stage = "Done"

\* C18, amended: in every converter but the Fakespot script, a run fails
\* only at Locating, Loading, Resolving or Exporting, and at Exporting only
\* because the exporter itself raised; once the exporter has returned, the
\* run is at the verifier or at the quantizer or has ended at Done, with
\* exit status 0.
C18_Amended ==
    family # "fakespot" =>
      /\ ConversionFailed => result.stage \in FatalStages \cup {"Exporting"}
      /\ (ConversionFailed /\ result.stage = "Exporting") =>
           /\ Len(Exports) = 1
           /\ exported = NoObject
           /\ verified = "none"
      /\ exported # NoObject =>
           /\ ~ConversionFailed
           /\ IF pc = "returned"
              THEN /\ result.ret = "True"
                   /\ result.stage = "Done"
                   /\ result.exit = 0
              ELSE /\ result = Running
                   /\ pc \in {"verify", "hub_quantize"}

\* a DeOldify run whose torch.onnx.export raised with model.onnx half
\* written: the run has failed at Exporting
C18_Witness ==
    /\ family = "deoldify"
    /\ Len(Exports) = 1
    /\ exported = NoObject
    /\ fs[OnnxPath].exists
    /\ ~fs[OnnxPath].complete
    /\ pc = "returned"
    /\ result.ret = "False"
    /\ result.stage = "Exporting"

(* C19 *)

\* the exporter was called and raised
ExportRaised == Len(Exports) > 0 /\ exported = NoObject

\* C19: when the exporter has raised, the run has ended in failure at
\* Exporting with a non-zero exit status, the verifier has not been run,
\* and the lines telling where else a converted model can be had have been
\* printed.
C19_ExportFailureFatal ==
    ExportRaised =>
      /\ pc = "returned"
      /\ ConversionFailed
      /\ result.stage = "Exporting"
      /\ result.exit # 0
      /\ Len(Verifications) = 0
      /\ "alternative_hint" \in printed

(* C20 *)

\* C20: the process has exited exactly when the run is no longer running;
\* its exit status is 0 exactly when the run reached Done, which happens
\* only with model.onnx exported and written to the end, and 1 for every
\* other outcome, the failed check of the dependencies among them.
C20_ExitCode ==
    /\ result.exit \in {-1, 0, 1}
    /\ result.exit = -1 <=> result = Running
    /\ result.exit = 0 <=> result.stage = "Done"
    /\ result.stage = "Done" =>
         /\ result.ret \in {"True", "None"}
         /\ exported # NoObject
         /\ fs[onnx_model_path(family)].exists
         /\ fs[onnx_model_path(family)].complete
    /\ (ConversionFailed \/ result = MissingPackages) => result.exit = 1

\* a run stopped by the check of the dependencies: nothing was located,
\* and the exit status is 1
C20_Witness ==
    /\ result = MissingPackages
    /\ "missing_packages" \in printed
    /\ result.exit = 1
    /\ events = << >>
    /\ exported = NoObject

(* C21 *)

\* the converters whose conversion function has a verification step
HasVerifier == {"fbcnn", "scunet", "zero_dce", "deoldify", "realesrgan"}

\* C21 as stated: a run ends at Done only after the verifier has run on the
\* exported file and accepted it.
C21_Original ==
    result.stage = "Done" =>
      /\ Len(Verifications) = 1
      /\ verified = "valid"

\* C21, amended: "ONNX model is valid" is printed only after the verifier
\* has run on the whole exported file and accepted it; a run ends at Done
\* only after the export, and then the verifier has run once, accepting
\* the file or raising, in the converters that have one, and not at all in
\* the AI detector and Fakespot converters.
C21_Amended ==
    /\ "model_is_valid" \in printed =>
         /\ Len(Verifications) = 1
         /\ verified = "valid"
         /\ exported # NoObject
         /\ fs[onnx_model_path(family)].exists
         /\ fs[onnx_model_path(family)].complete
    /\ result.stage = "Done" =>
         /\ exported # NoObject
         /\ IF family \in HasVerifier
            THEN /\ Len(Verifications) = 1
                 /\ verified \in {"valid", "warning"}
            ELSE /\ Len(Verifications) = 0
                 /\ verified = "none"

\* a Fakespot run that ended at Done: model.onnx was exported and nothing
\* ever verified it
C21_Witness ==
    /\ family = "fakespot"
    /\ result.stage = "Done"
    /\ result.exit = 0
    /\ exported # NoObject
    /\ fs[onnx_model_path(family)].complete
    /\ Len(Verifications) = 0
    /\ verified = "none"

(* C22 *)

\* the run has named model.onnx as a file it produced: "ONNX model saved
\* to", or the list of files that ends a successful conversion
Reported ==
    printed \cap {"onnx_model_saved", "conversion_complete", "done"} # {}

\* the run reports success
Succeeded == result.ret \in {"True", "None"}

\* C22: model.onnx is named as produced only when the exporter was called
\* in this run and returned, having written the file to the end with the
\* exported weights; a successful run names it; and a run that failed, or
\* was stopped by the check of the dependencies, has not named it.
C22_NoPartialSuccess ==
    /\ Reported =>
         /\ Len(Exports) = 1
         /\ exported # NoObject
         /\ fs[onnx_model_path(family)].exists
         /\ fs[onnx_model_path(family)].complete
         /\ fs[onnx_model_path(family)].content = exported.weights
    /\ Succeeded => Reported
    /\ (ConversionFailed \/ result = MissingPackages) => ~Reported

\* an AI-detector run whose save_pretrained raised with model.onnx half
\* written: the file is there, the run failed and named no file
C22_Witness ==
    /\ family = "ai_detector"
    /\ Len(Exports) = 1
    /\ fs[onnx_model_path(family)].exists
    /\ ~fs[onnx_model_path(family)].complete
    /\ ConversionFailed
    /\ ~Reported

(* C23 *)

\* C23: every call of the exporter names onnx/model.onnx under the output
\* directory; every graph file a run has written lies in that onnx
\* directory, and every tokenizer or config file directly in the output
\* directory.
C23_OutputLayout ==
    /\ \A i \in 1..Len(Exports) : Exports[i].path = OnnxPath
    /\ \A p \in OutputPaths :
         fs[p].exists =>
           IF p[2] \in {"model.onnx", "model_quantized.onnx"}
           THEN p[1] = "onnx"
           ELSE p[1] = "output"

(* C24 *)

\* the returns of download_file in the earlier run
EarlierReturns ==
    SelectSeq(earlier.events, LAMBDA e : e.op = "download_file_return")

\* the remote state is the same for both runs: a source that both runs
\* tried answered both in the same way
RemoteSame ==
    \A i \in 1..Len(EarlierReturns) : \A j \in 1..Len(Returns) :
       EarlierReturns[i].src = Returns[j].src =>
         EarlierReturns[i].res = Returns[j].res

\* the run asked whether to download
Asked(evs) == \E k \in 1..Len(evs) : evs[k].op = "input"

\* the run called download_file: the answer was 'y'
Accepted(evs) == \E k \in 1..Len(evs) : evs[k].op = "download_file"

\* where both runs asked, they were given the same answer
AnswersSame ==
    (Asked(earlier.events) /\ Asked(events)) =>
      (Accepted(earlier.events) <=> Accepted(events))

\* C24, for the stage whose only inputs are the arguments, the remote
\* state and the answer to the prompt: when the FBCNN, SCUNet or Zero-DCE
\* command is run a second time with the same arguments, the same answers
\* and the same remote state, on the filesystem the first run left, the
\* second run fails at Locating exactly if the first did.
C24_RunsIndependent ==
    ( /\ earlier.ran
      /\ family \in Prompting
      /\ pc = "returned"
      /\ RemoteSame
      /\ AnswersSame ) =>
        (earlier.result.stage = "Locating" <=> result.stage = "Locating")

(* C25 *)

\* the messages with which a resolution fails
ResolutionTags == {"error_loading_model", "model_is_dictionary",
                   "no_state_dict", "install_deoldify",
                   "error_creating_generator"}

\* what the generator factory did in a run: the outcomes of the manual
\* load_state_dict calls, and whether the factory gave up
FactoryTrace(evs, tags) ==
    << SelectSeq(evs, LAMBDA e : e.op = "load_state_dict"),
       "error_creating_generator" \in tags >>

\* the run got past the resolver: it called the exporter
Resolved(evs) == \E k \in 1..Len(evs) : evs[k].op = "export"

\* both runs were given the same by everything outside the resolver: the
\* same object from torch.load, the same availability of the DeOldify
\* package, the same behaviour of the factory and of load_state_dict, and
\* a module with the same wrapper attribute
SameResolverInputs ==
    /\ checkpoint # NoObject
    /\ checkpoint = earlier.checkpoint
    /\ deoldify_available = earlier.available
    /\ "install_deoldify" \in printed <=> "install_deoldify" \in earlier.printed
    /\ FactoryTrace(events, printed)
         = FactoryTrace(earlier.events, earlier.printed)
    /\ (model.kind = "module" /\ earlier.model.kind = "module") =>
         model.id = earlier.model.id

\* C25: a run leaves the checkpoint file it was given as it found it; and
\* when a second run has resolved the same checkpoint with the same
\* availability and behaviour of the factory, it has failed at Resolving
\* exactly if the first did, with the same message, and if both got past
\* the resolver, the modules they resolved have the same weights.
C25_ResolutionIdempotent ==
    /\ earlier.ran => fs0[arg_model_path] = earlier.file
    /\ (earlier.ran /\ pc = "returned" /\ SameResolverInputs) =>
         /\ earlier.result.stage = "Resolving" <=> result.stage = "Resolving"
         /\ printed \cap ResolutionTags = earlier.printed \cap ResolutionTags
         /\ Resolved(earlier.events) <=> Resolved(events)
         /\ Resolved(events) =>
              /\ model.kind = "module"
              /\ model.weights = earlier.model.weights

\* two DeOldify runs on the same checkpoint: the first copied it to the
\* place the factory reads, the second found the copy, and both resolved
\* a module with the weights of the checkpoint
C25_Witness ==
    /\ earlier.ran
    /\ family = "deoldify"
    /\ pc = "returned"
    /\ SameResolverInputs
    /\ Resolved(earlier.events)
    /\ Resolved(events)
    /\ fs0[expected_weight_path].exists
    /\ fs0[expected_weight_path].content = UserPath
    /\ model.weights = UserPath
    /\ earlier.model.weights = UserPath

(* C26 *)

\* the model of the run was built by the converter's own architecture
\* code: DeOldify's generator factory, Real-ESRGAN's RRDBNet
BuiltByConverter ==
    \/ family = "deoldify" /\ model.id[1] = "gen_inference_deep"
    \/ family = "realesrgan" /\ model # NoObject

\* C26: a DeOldify run that downloads asks for the weight file of the
\* variant it was started for, and a run that has built its network has
\* built the architecture of that variant.
C26_VariantFidelity ==
    /\ (family = "deoldify" /\ Len(Calls) > 0) =>
         model_files(variant) = expected_weight_name(variant)
    /\ BuiltByConverter => built_architecture(family, variant) = variant

(* C27 *)

\* the process has exited: the conversion function has returned or raised,
\* or main() has stopped at the check of the dependencies
Terminated == result # Running

\* C27: every run ends: it reaches Done or a failure, or raises to the
\* caller.
C27_Termination == <>Terminated

\* a run that ended after the locator had tried every remote source and
\* the download loop had read a whole body in MaxChunks chunks
C27_Witness ==
    /\ Terminated
    /\ Len(Returns) = Len(Sources)
    /\ Returns[Len(Returns)].res = "ok"
    /\ fs[DestFile].complete
    /\ fs[DestFile].len > (MaxChunks - 1) * chunk_size
    /\ result.stage = "Done"

(* C28 *)

\* the stage a position of the run belongs to, by its place in the order
\* Locating, Loading, Resolving, Exporting, Verifying, terminal
StageOfPc(p) ==
    IF p \in {"start", "probe", "prompt", "clone", "remote", "download_file",
              "chunks", "fetch_ret", "search"} THEN 1
    ELSE IF p \in {"load", "hub_load"} THEN 2
    ELSE IF p \in {"resolve", "import", "factory", "gen", "unwrap"} THEN 3
    ELSE IF p \in {"export", "hub_export", "hub_quantize", "hub_save"} THEN 4
    ELSE IF p = "verify" THEN 5
    ELSE 6

\* the stage an operation belongs to; 0 for git clone, which the locator
\* and the resolver of DeOldify both use to fetch the architecture code
StageOfOp(op) ==
    IF op \in {"probe", "input", "download_file", "download_file_return"}
    THEN 1
    ELSE IF op = "torch_load" THEN 2
    ELSE IF op = "load_state_dict" THEN 3
    ELSE IF op \in {"export", "ort_export", "quantize"} THEN 4
    ELSE IF op = "check_model" THEN 5
    ELSE 0

\* the operations so far happened in the order of their stages, none of
\* them after the position of the run, and the loader, the exporter and
\* the verifier were called at most once
EventsForward ==
    /\ \A i \in 1..Len(events) : \A j \in i..Len(events) :
         LET a == StageOfOp(events[i].op)
             b == StageOfOp(events[j].op)
         IN (a # 0 /\ b # 0) => a <= b
    /\ \A i \in 1..Len(events) : StageOfOp(events[i].op) <= StageOfPc(pc)
    /\ \A op \in {"torch_load", "export", "ort_export", "quantize",
                   "check_model"} :
         Cardinality({ i \in 1..Len(events) : events[i].op = op }) <= 1

\* the number of the stage a run failed at
FailedStage ==
    IF result.stage = "Locating" THEN 1
    ELSE IF result.stage = "Loading" THEN 2
    ELSE IF result.stage = "Resolving" THEN 3
    ELSE 4

\* a run that failed at a stage has done nothing of a later stage
FailureHalts ==
    ConversionFailed =>
      /\ pc = "returned"
      /\ \A i \in 1..Len(events) : StageOfOp(events[i].op) <= FailedStage
      /\ FailedStage < 2 => checkpoint = NoObject
      /\ FailedStage < 3 => model = NoObject /\ evaled = {}
      /\ FailedStage < 4 =>
           /\ exported = NoObject
           /\ ~fs[onnx_model_path(family)].exists
           /\ ~fs[QuantizedPath].exists
      /\ verified = "none"

GivenAnswers ==
    {events[k].res : k \in {i \in 1..Len(events) : events[i].op = "input"}}
      \cap Answers

\* nothing was fetched, the file system is as the run found it, and the run
\* ended Failed at Locating with the manual download instructions
DeclinedOutcome ==
    /\ Calls = << >>
    /\ \A k \in 1..Len(events) : events[k].op \notin {"urlopen", "download_file_return"}
    /\ fs = fs0
    /\ ~fs[DestFile].exists
    /\ LocatingFailed
    /\ NoLaterStage

\* C29 as stated: in the FBCNN, SCUNet and Zero-DCE converters, with no
\* local candidate, any typed answer other than the letter 'y' fetches no
\* remote candidate, writes nothing to the cache path and ends the run
\* Failed at Locating with manual download instructions.
C29_Original ==
    (family \in Prompting /\ AllLocalAbsent /\ \E a \in GivenAnswers : a # "y")
      => DeclinedOutcome

\* C29, amended: with no local candidate, any answer that is not 'y' once
\* surrounding whitespace is stripped and it is lower-cased fetches no
\* remote candidate, writes nothing to the cache path and ends the run
\* Failed at Locating with manual download instructions.
C29_Amended ==
    (family \in Prompting /\ AllLocalAbsent
       /\ \E a \in GivenAnswers : StripLower(a) # "y")
      => DeclinedOutcome

\* a prompting converter found nothing locally, was answered "yes", and
\* ended without a download
C29_Witness ==
    /\ family \in Prompting
    /\ AllLocalAbsent
    /\ GivenAnswers = {"yes"}
    /\ DeclinedOutcome

(* C30 *)

\* the run's summary names model_quantized.onnx among the files created
ListsQuantized == "lists_model_quantized" \in printed

\* quantization was requested, the quantizer was called and did not fail
QuantizationSucceeded ==
    /\ quantize
    /\ Len(Quantizations) = 1
    /\ "quantized_saved" \in printed
    /\ "quantization_failed" \notin printed

\* C30: model_quantized.onnx is part of the reported output of a run exactly
\* when quantization was requested and succeeded; a run whose quantization
\* failed does not list model_quantized.onnx among the files it created.
C30_QuantizedReported ==
    /\ ListsQuantized <=> (result = Returned("True", "Done") /\ QuantizationSucceeded)
    /\ "quantization_failed" \in printed => ~ListsQuantized

(* C31 *)

\* download_file has just returned False to its caller; the fetches before
\* it in the loop returned False as well
FetchJustFailed == pc = "fetch_ret" /\ dl.ret = "False"

\* a declared local candidate holds a file that was not written to its end
RemainsAt(p) == Exists(p) /\ ~fs[p].complete

\* C31: when a fetch has returned failure, the destination is as it was
\* before the fetches of the run, neither created nor truncated nor
\* modified; and once a fetch has returned no declared local candidate
\* holds the remains of a download for a later probe to find.
C31_FailedFetchLeavesDest ==
    /\ FetchJustFailed => fs[DestFile] = fs0[DestFile]
    /\ (Len(Returns) > 0 /\ Len(Calls) = Len(Returns)) =>
         \A i \in 1..Len(Declared) : ~RemainsAt(Declared[i])

(* C32 *)

\* the download was allowed: DeOldify sets download_choice = 'y' itself, the
\* other converters ask
DownloadPermitted ==
    \/ family = "deoldify"
    \/ \E a \in GivenAnswers : StripLower(a) = "y"

\* the run has ended in failure at Locating
FailedAtLocating == ConversionFailed /\ result.stage = "Locating"

\* C32: with no local candidate and the download permitted, a run that has
\* failed at Locating has called download_file for every declared remote
\* candidate and every call has returned failure; nothing else ends
\* Locating in failure before the remote candidates are tried.
C32_FailsOnlyAfterAllRemotes ==
    (family \in Families /\ AllLocalAbsent /\ DownloadPermitted /\ FailedAtLocating)
      => /\ Len(Calls) = Len(Sources)
         /\ EveryRemoteFailed

(* C33 *)

\* a weight file stood at DeOldify/models/ColorizeArtistic_gen.pth before
\* the run began
LeftAtExpectedPath ==
    expected_weight_path \in DOMAIN fs0 /\ fs0[expected_weight_path].exists

\* C33: the module a weight-file converter has exported carries the weights
\* of the checkpoint file resolved for the run, the --model-path file or the
\* file the locator returned; DeOldify in particular never exports the
\* weights of a file that stood at DeOldify/models/ColorizeArtistic_gen.pth
\* before the run.
C33_ExportsResolvedWeights ==
    (family \in Families /\ exported # NoObject) =>
      /\ exported.weights = fs[model_path].content
      /\ (family = "deoldify" /\ LeftAtExpectedPath
            /\ model_path # expected_weight_path) =>
           exported.weights # fs0[expected_weight_path].content

(* C34 *)

NetworkOps == {"input", "git_clone", "download_file", "download_file_return"}

\* the locator of a run with these events succeeded through a remote fetch
FetchedIn(evs) ==
    \E k \in 1..Len(evs) :
      evs[k].op = "download_file_return" /\ evs[k].res = "ok"

\* the locator of a run with these events succeeded through the search of
\* the DeOldify checkout
FoundBySearchIn(evs) ==
    \E k \in 1..Len(evs) :
      /\ evs[k].op = "probe"
      /\ evs[k].res = "hit"
      /\ evs[k].path \in SearchLocations(variant) \ SeqToSet(Declared)

\* the path a run with these events loaded its checkpoint from
LoadedFrom(evs) ==
    { evs[k].path : k \in { i \in 1..Len(evs) : evs[i].op = "torch_load" } }

\* C34: once the locator of a run has succeeded through a remote fetch or
\* through the DeOldify repository search, the weight file sits, whole, at
\* the first declared local candidate and that is the path the locator
\* returns; the next run with the same arguments does no network access
\* (no prompt, no clone, no download), and when it has located the file it
\* did so by the hit of its first local probe and returns the same path.
C34_CacheWriteBack ==
    /\ ((FetchedIn(events) \/ FoundBySearchIn(events)) /\ PastLocating) =>
         /\ model_path = Declared[1]
         /\ Exists(Declared[1])
         /\ fs[Declared[1]].complete
    /\ (earlier.ran /\ (FetchedIn(earlier.events) \/ FoundBySearchIn(earlier.events))) =>
         /\ \A k \in 1..Len(events) : events[k].op \notin NetworkOps
         /\ PastLocating =>
              /\ model_path = Declared[1]
              /\ LoadedFrom(earlier.events) = {model_path}
              /\ events[1] = Ev("probe", Declared[1], "none", "hit")
              /\ \A k \in 2..Len(events) : events[k].op # "probe"

\* the second run of a converter whose first run downloaded the weight file:
\* it has found the file with its first probe and is through with locating
C34_Witness ==
    /\ earlier.ran
    /\ FetchedIn(earlier.events)
    /\ PastLocating
    /\ model_path = Declared[1]
    /\ events[1].res = "hit"
    /\ Calls = << >>

(* C35 *)

\* the entries of sitemap.xml for the URL u
EntriesFor(u) == { k \in 1..Len(site.sitemap) : site.sitemap[k] = u }

\* the URLs of the pages generated so far
PageUrls == { "https://example.com/" \o d : d \in site.pages }

\* the number of ordered pairs of distinct units, over the categories that
\* have units
RECURSIVE PairCount(_)
PairCount(k) ==
    IF k = 0 THEN 0
    ELSE PairCount(k - 1) +
         (IF site.categories[k] \in DOMAIN site.units
          THEN LET n == Len(site.units[site.categories[k]]) IN n * (n - 1)
          ELSE 0)

\* C35: however often the generator has run, sitemap.xml holds at most one
\* entry for each generated page URL; a run that is about to update the
\* sitemap brings one entry for each ordered pair of distinct units of a
\* category.
C35_SitemapEntriesUnique ==
    /\ \A u \in PageUrls : Cardinality(EntriesFor(u)) <= 1
    /\ gen.pc = "sitemap" =>
         Len(gen.sitemap_entries) = PairCount(Len(site.categories))

(* C36 *)

\* the run is inside the try block around gen_inference_deep
InFactoryTry == pc = "gen"

\* C36: torch.load is replaced only while the factory builds the
\* architecture: on every way out of that step, the factory's success, the
\* fallback's success or an exception that fails the run, torch.load is the
\* original function again, before the conversion continues or returns.
C36_TorchLoadRestored ==
    /\ torch_load \in {"original", "patched"}
    /\ torch_load = "patched" => InFactoryTry
    /\ ~InFactoryTry => torch_load = "original"

\* a DeOldify run whose factory raised twice: the run has failed at
\* Resolving and torch.load is the original function
C36_Witness ==
    /\ family = "deoldify"
    /\ "error_creating_generator" \in printed
    /\ pc = "returned"
    /\ result = Returned("False", "Resolving")
    /\ torch_load = "original"

====
